---- MODULE Spec2Model ----
(***************************************************************************)
(* Event-sourced persistence core of nextversion: the Task aggregate       *)
(* (domain.py), the relational event store (eventstore.py), the Unit of    *)
(* Work (uow.py) and the checkpointed projections (projections.py,         *)
(* consumers.py).                                                          *)
(*                                                                         *)
(* The event store is a PostgreSQL table.  Its rows are modelled as the    *)
(* committed log (in commit order) plus, per open transaction, the rows    *)
(* that transaction has inserted and not yet committed (READ COMMITTED:    *)
(* a statement sees the committed rows and its own transaction's rows).    *)
(* logical_time is drawn from a database sequence, which hands out its     *)
(* next value at INSERT time and is not rolled back.                       *)
(***************************************************************************)
EXTENDS Integers, Sequences, FiniteSets, TLC

\* ------------------------------------------------------------------ bounds

\* Events each caller synthesizes by create / behaviour methods.
MaxEvents == 2
\* Aggregates each caller creates.
MaxAggregates == 1

\* Concurrent callers, each with its own Unit of Work and database session.
UoWs == {"uow1", "uow2"}
\* A caller that is alone on the database, with larger bounds of its own:
\* the events it synthesizes and the aggregates it creates.
UoWCallers == {"uow3"}
MaxEventsAlone == 3
MaxAggregatesAlone == 2
Callers == UoWs \cup UoWCallers
UoWIndex == [uow1 |-> 1, uow2 |-> 2, uow3 |-> 3]
EventBudget(u) == IF u \in UoWCallers THEN MaxEventsAlone ELSE MaxEvents
AggregateBudget(u) == IF u \in UoWCallers THEN MaxAggregatesAlone ELSE MaxAggregates

\* uuid4: the n-th aggregate_id generated by caller u; distinct for distinct
\* (u, n).  Event ids are the pairs <<u, n>>.
AggregateIdOf(u, n) == (n - 1) * Cardinality(Callers) + UoWIndex[u]
\* Bounds of the client that calls DBEventStore.write itself: the events it
\* writes and the largest sequence_id it puts on one.
MaxWrites == 3
MaxSequenceId == 2

AggregateIdsOf(callers) ==
    UNION {{AggregateIdOf(u, n) : n \in 1..AggregateBudget(u)} : u \in callers}
AggregateIds == AggregateIdsOf(UoWs)
AllAggregateIds == AggregateIdsOf(Callers)

\* Inputs of the behaviour methods.
ProjectIds == {"project1"}
AssigneeIds == {"user1"}
Description == "Long text of what to do."

\* Python None
None == "None"

\* A Python value of a title argument: its type and its text.
StrValue(s) == [py_type |-> "str", v |-> s]
NoTitle == [py_type |-> "NoneType", v |-> None]
ValidTitles == {StrValue("Do it"), StrValue("Something else")}
\* Arguments that make Task.validate raise: a title that is no str
\* (update_title(123)) and one shorter than three characters.
InvalidTitles == {[py_type |-> "int", v |-> "123"], StrValue("ab")}
\* The calls the callers of the concurrency specification make.
CreateTitles == {StrValue("Do it")}
BehaviourCalls == {[kind |-> "update_title", arg |-> StrValue("Something else")]}

\* The calls the lone caller makes on an aggregate: update_title with valid
\* and invalid titles, and (in AnyBehaviour) every other behaviour method.
TitleCalls ==
    {[kind |-> "update_title", arg |-> title] : title \in ValidTitles \cup InvalidTitles}

\* ------------------------------------------------------------------ helpers

RECURSIVE SetToSortedSeq(_)
SetToSortedSeq(S) ==
    IF S = {} THEN <<>>
    ELSE LET m == CHOOSE x \in S : \A y \in S : x <= y
         IN <<m>> \o SetToSortedSeq(S \ {m})

RECURSIVE SeqConcat(_)
SeqConcat(ss) == IF ss = <<>> THEN <<>> ELSE Head(ss) \o SeqConcat(Tail(ss))

Range(s) == {s[i] : i \in DOMAIN s}

SetMax(S, default) ==
    IF S = {} THEN default ELSE CHOOSE x \in S : \A y \in S : y <= x

\* ------------------------------------------------------------------ domain

TASK_EVENT_TYPES ==
    {"TaskCreated", "TaskTitleChanged", "TaskCompleted", "TaskAssigned",
     "TaskUnassigned"}

\* The frozen event dataclasses; fields a type does not have hold None.
TaskCreated(title, description, project_id, aggregate_id, sequence_id, event_id) ==
    [event_type |-> "TaskCreated", aggregate_id |-> aggregate_id,
     sequence_id |-> sequence_id, event_id |-> event_id, title |-> title,
     description |-> description, project_id |-> project_id, assignee_id |-> None]

TaskTitleChanged(title, aggregate_id, sequence_id, event_id) ==
    [event_type |-> "TaskTitleChanged", aggregate_id |-> aggregate_id,
     sequence_id |-> sequence_id, event_id |-> event_id, title |-> title,
     description |-> None, project_id |-> None, assignee_id |-> None]

TaskCompleted(aggregate_id, sequence_id, event_id) ==
    [event_type |-> "TaskCompleted", aggregate_id |-> aggregate_id,
     sequence_id |-> sequence_id, event_id |-> event_id, title |-> NoTitle,
     description |-> None, project_id |-> None, assignee_id |-> None]

TaskAssigned(assignee_id, aggregate_id, sequence_id, event_id) ==
    [event_type |-> "TaskAssigned", aggregate_id |-> aggregate_id,
     sequence_id |-> sequence_id, event_id |-> event_id, title |-> NoTitle,
     description |-> None, project_id |-> None, assignee_id |-> assignee_id]

TaskUnassigned(aggregate_id, sequence_id, event_id) ==
    [event_type |-> "TaskUnassigned", aggregate_id |-> aggregate_id,
     sequence_id |-> sequence_id, event_id |-> event_id, title |-> NoTitle,
     description |-> None, project_id |-> None, assignee_id |-> None]

\* Task(): an aggregate with no events.  Its attributes do not exist until
\* _apply_task_created has set them (has_attrs).
NewTask ==
    [events |-> <<>>, has_attrs |-> FALSE, aggregate_id |-> 0, project_id |-> None,
     title |-> NoTitle, description |-> None, completed |-> FALSE,
     assignee_id |-> None]

\* Task._apply: the singledispatch handlers.
TaskApply(obj, event) ==
    CASE event.event_type = "TaskCreated" ->
            [obj EXCEPT !.has_attrs = TRUE,
                        !.aggregate_id = event.aggregate_id,
                        !.project_id = event.project_id,
                        !.title = event.title,
                        !.description = event.description,
                        !.completed = FALSE,
                        !.assignee_id = None]
      [] event.event_type = "TaskTitleChanged" -> [obj EXCEPT !.title = event.title]
      [] event.event_type = "TaskCompleted" -> [obj EXCEPT !.completed = TRUE]
      [] event.event_type = "TaskAssigned" ->
            [obj EXCEPT !.assignee_id = event.assignee_id]
      [] event.event_type = "TaskUnassigned" -> [obj EXCEPT !.assignee_id = None]

\* Task.validate: True when it returns, False when it raises.
MinTitleLen == 3
TaskValidate(obj) ==
    /\ obj.has_attrs
    /\ obj.title.py_type = "str"
    /\ obj.description # None
    /\ obj.project_id # None
    /\ Len(obj.title.v) >= MinTitleLen

\* apply that appends the event before it validates.
AggregateApplyAppendFirst(obj, event) ==
    LET applied == TaskApply(obj, event)
    IN [obj |-> [applied EXCEPT !.events = Append(applied.events, event)],
        raised |-> ~TaskValidate(applied)]

\* Aggregate.apply: _apply, validate, append.  The attributes set by _apply
\* stay set when validate raises; only the append is skipped.
AggregateApply(obj, event) ==
    LET applied == TaskApply(obj, event)
    IN IF TaskValidate(applied)
       THEN [obj |-> [applied EXCEPT !.events = Append(applied.events, event)],
             raised |-> FALSE]
       ELSE [obj |-> applied, raised |-> TRUE]

\* current_sequence_id as the number of events.
CurrentSequenceIdCount(obj) == Len(obj.events)

\* Aggregate.current_sequence_id
CurrentSequenceId(obj) ==
    IF obj.events = <<>> THEN 0
    ELSE SetMax({obj.events[i].sequence_id : i \in DOMAIN obj.events}, 0)

\* Aggregate.reconstruct: fold apply over the events, stopping at a raise.
RECURSIVE ReconstructFrom(_, _)
ReconstructFrom(obj, events) ==
    IF events = <<>> THEN [obj |-> obj, raised |-> FALSE]
    ELSE LET r == AggregateApply(obj, Head(events))
         IN IF r.raised THEN r ELSE ReconstructFrom(r.obj, Tail(events))

Reconstruct(events) == ReconstructFrom(NewTask, events)

\* ------------------------------------------------------------------ state

VARIABLES
    \* --- events database
    log,                \* committed rows of the events table, in commit order
    tx_rows,            \* per session: rows inserted by its open transaction
    logical_time_seq,   \* last value handed out by the events_logical_time sequence
    advisory_locks,     \* per lock key (aggregate): the session holding it, or None
    \* --- Unit of Work of each caller
    identity_map,       \* Repo._identity_map: aggregates in insertion order
    committed_sequence_ids, \* Repo._committed_sequence_ids: aggregate_id -> baseline
    pc,                 \* where the caller is inside UoW.commit
    commit_events,      \* commit's local list `events`
    commit_locks,       \* commit's sorted locks still to acquire
    commit_next,        \* index in commit_events of the next event to write
    current_sequence_id,\* write's local: the maximum sequence_id it selected
    commit_result,      \* what the last commit returned or raised
    held,               \* the caller's own references to aggregates it created
                        \* or got, kept across commit and rollback
    \* --- projections database, per projection
    durable,            \* committed read model and housekeeping row
    session,            \* the consumer's ORM session: durable plus pending writes
    consumer_pc,        \* "idle", "applied" (before session.commit()), "killed"
    batch,              \* logical times of the events the running cycle fetched
    fetched,            \* history: logical times ever returned by a fetch
    \* --- uuid4, per caller
    next_event_id,      \* number of the next event id the caller generates
    next_aggregate_id,  \* number of the next aggregate id the caller generates
    \* --- other processes
    reply,              \* what the last query of the reading client returned
    run_once,           \* ConsumerGroup.run_once: position of its loop over the
                        \* consumers, and the consumers whose exception it logged
    appended_to_stale   \* history: the events the callers appended to references
                        \* to aggregates that were not in the identity map

store_vars == <<log, tx_rows, logical_time_seq, advisory_locks>>
uow_vars == <<identity_map, committed_sequence_ids, pc, commit_events, commit_locks,
              commit_next, current_sequence_id, commit_result, held>>
uuid_vars == <<next_event_id, next_aggregate_id>>
projection_vars == <<durable, session, consumer_pc, batch, fetched>>
process_vars == <<reply, run_once, appended_to_stale>>

\* ------------------------------------------------------------------ event store

\* write's `content`: dataclasses.asdict(event) without aggregate_id,
\* sequence_id and event_id, i.e. the fields of the event's own class.
EventContent(event) ==
    CASE event.event_type = "TaskCreated" ->
            [title |-> event.title, description |-> event.description,
             project_id |-> event.project_id]
      [] event.event_type = "TaskTitleChanged" -> [title |-> event.title]
      [] event.event_type = "TaskAssigned" -> [assignee_id |-> event.assignee_id]
      [] OTHER -> <<>>

\* The inserted row.
EventRow(event, logical_time) ==
    [logical_time |-> logical_time, aggregate_id |-> event.aggregate_id,
     sequence_id |-> event.sequence_id, event_id |-> event.event_id,
     event_type |-> event.event_type, content |-> EventContent(event)]

\* DBEventStore._from_row: cls(event_id, aggregate_id, sequence_id, **content)
FromRow(row) ==
    CASE row.event_type = "TaskCreated" ->
            TaskCreated(row.content.title, row.content.description,
                        row.content.project_id, row.aggregate_id, row.sequence_id,
                        row.event_id)
      [] row.event_type = "TaskTitleChanged" ->
            TaskTitleChanged(row.content.title, row.aggregate_id, row.sequence_id,
                             row.event_id)
      [] row.event_type = "TaskCompleted" ->
            TaskCompleted(row.aggregate_id, row.sequence_id, row.event_id)
      [] row.event_type = "TaskAssigned" ->
            TaskAssigned(row.content.assignee_id, row.aggregate_id, row.sequence_id,
                         row.event_id)
      [] row.event_type = "TaskUnassigned" ->
            TaskUnassigned(row.aggregate_id, row.sequence_id, row.event_id)

\* ORDER BY sequence_id (rows with equal sequence_id, which the table does
\* not forbid, come in logical_time order: one of the orders the database
\* may choose).
RECURSIVE OrderBySequenceId(_)
OrderBySequenceId(rows) ==
    IF rows = {} THEN <<>>
    ELSE LET first == CHOOSE r \in rows :
                 \A q \in rows :
                     \/ r.sequence_id < q.sequence_id
                     \/ /\ r.sequence_id = q.sequence_id
                        /\ r.logical_time <= q.logical_time
         IN <<first>> \o OrderBySequenceId(rows \ {first})

\* ORDER BY logical_time (unique)
RECURSIVE OrderByLogicalTime(_)
OrderByLogicalTime(rows) ==
    IF rows = {} THEN <<>>
    ELSE LET first == CHOOSE r \in rows :
                 \A q \in rows : r.logical_time <= q.logical_time
         IN <<first>> \o OrderByLogicalTime(rows \ {first})

\* The rows a statement of session u sees: committed rows and its own.
VisibleRows(u) == Range(log) \cup Range(tx_rows[u])

\* get_events filtering by type also when no type is given, as
\* get_events_starting_at does.
GetEventsAlwaysFiltered(rows, aggregate_id, types) ==
    LET sel == {r \in rows : r.aggregate_id = aggregate_id /\ r.event_type \in types}
        ordered == OrderBySequenceId(sel)
    IN [i \in DOMAIN ordered |-> FromRow(ordered[i])]

\* DBEventStore.get_events over the rows `rows`
GetEvents(rows, aggregate_id, types) ==
    LET sel == {r \in rows :
                   /\ r.aggregate_id = aggregate_id
                   /\ (types # {} => r.event_type \in types)}
        ordered == OrderBySequenceId(sel)
    IN [i \in DOMAIN ordered |-> FromRow(ordered[i])]

\* get_events_starting_at with logical_time >= instead of >.
GetEventsStartingAtInclusive(rows, logical_time, types) ==
    LET sel == {r \in rows : r.logical_time >= logical_time /\ r.event_type \in types}
        ordered == OrderByLogicalTime(sel)
    IN [i \in DOMAIN ordered |->
            [event |-> FromRow(ordered[i]), logical_time |-> ordered[i].logical_time]]

\* DBEventStore.get_events_starting_at over the committed rows: RecordedEvents
GetEventsStartingAt(rows, logical_time, types) ==
    LET sel == {r \in rows : r.logical_time > logical_time /\ r.event_type \in types}
        ordered == OrderByLogicalTime(sel)
    IN [i \in DOMAIN ordered |->
            [event |-> FromRow(ordered[i]), logical_time |-> ordered[i].logical_time]]

\* write's SELECT max(sequence_id) without its WHERE aggregate_id = ...
SelectMaxSequenceIdOfTable(rows, aggregate_id) ==
    SetMax({r.sequence_id : r \in rows}, -1)

\* write's SELECT max(sequence_id) WHERE aggregate_id = ..., None replaced by -1
SelectMaxSequenceId(rows, aggregate_id) ==
    SetMax({r.sequence_id : r \in {q \in rows : q.aggregate_id = aggregate_id}}, -1)

\* write without its sequence-id check.
WrongSeqIdUnchecked(selected_max, event) == FALSE

\* write's check: True when it raises RuntimeError("Wrong seq id")
WrongSeqId(selected_max, event) == selected_max # event.sequence_id - 1

\* Transaction end of session u (commit or rollback): its advisory
\* transaction-level locks are released.
ReleaseLocks(u) ==
    [k \in DOMAIN advisory_locks |->
        IF advisory_locks[k] = u THEN None ELSE advisory_locks[k]]

\* ------------------------------------------------------------------ unit of work

InIdentityMap(u, aggregate_id) ==
    \E i \in DOMAIN identity_map[u] : identity_map[u][i].aggregate_id = aggregate_id

IdentityMapGet(u, aggregate_id) ==
    identity_map[u][CHOOSE i \in DOMAIN identity_map[u] :
                        identity_map[u][i].aggregate_id = aggregate_id]

\* Repo._get_events_for
GetEventsFor(u, aggregate_id) ==
    IF InIdentityMap(u, aggregate_id)
    THEN IdentityMapGet(u, aggregate_id).events
    ELSE GetEvents(VisibleRows(u), aggregate_id, TASK_EVENT_TYPES)

\* exists that looks at the identity map only.
RepoExistsInMapOnly(u, aggregate_id) == InIdentityMap(u, aggregate_id)

\* Repo.exists
RepoExists(u, aggregate_id) == GetEventsFor(u, aggregate_id) # <<>>

\* get_committable_events with sequence_id >= committed_sequence_id.
CommittableEventsOfInclusive(obj, committed_sequence_id) ==
    LET IsNew(event) == event.sequence_id >= committed_sequence_id
    IN SelectSeq(obj.events, IsNew)

\* Repo.get_committable_events for one aggregate of the identity map
CommittableEventsOf(obj, committed_sequence_id) ==
    LET IsNew(event) == event.sequence_id > committed_sequence_id
    IN SelectSeq(obj.events, IsNew)

\* Repo.get_committable_events
GetCommittableEvents(map, baselines) ==
    SeqConcat([i \in DOMAIN map |->
                  CommittableEventsOf(map[i], baselines[map[i].aggregate_id])])

\* Aggregate.next_event_attrs
NextEventAttrs(obj) ==
    [sequence_id |-> CurrentSequenceId(obj) + 1, aggregate_id |-> obj.aggregate_id]

\* The event a behaviour method synthesizes.
BehaviourKinds == {"update_title", "complete", "assign", "unassign"}
BehaviourEvent(obj, kind, arg, event_id) ==
    LET attrs == NextEventAttrs(obj)
    IN CASE kind = "update_title" ->
                TaskTitleChanged(arg, attrs.aggregate_id, attrs.sequence_id, event_id)
         [] kind = "complete" ->
                TaskCompleted(attrs.aggregate_id, attrs.sequence_id, event_id)
         [] kind = "assign" ->
                TaskAssigned(arg, attrs.aggregate_id, attrs.sequence_id, event_id)
         [] kind = "unassign" ->
                TaskUnassigned(attrs.aggregate_id, attrs.sequence_id, event_id)

\* commit's locals and result are those of the caller's last call of commit:
\* they are gone with the caller's next call on the Unit of Work.
NoResult == [status |-> "none", logical_time |-> -1, error |-> None]
NextCall(u) ==
    /\ commit_events' = [commit_events EXCEPT ![u] = <<>>]
    /\ commit_next' = [commit_next EXCEPT ![u] = 1]
    /\ commit_result' = [commit_result EXCEPT ![u] = NoResult]
    /\ held' = [held EXCEPT ![u] = <<>>]
    /\ UNCHANGED <<pc, commit_locks, current_sequence_id>>

\* Task.create(title, description, project_id) followed by repo.add(task)
Create(u, title, project_id) ==
    /\ pc[u] = "idle"
    /\ next_event_id[u] <= EventBudget(u)
    /\ next_aggregate_id[u] <= AggregateBudget(u)
    /\ LET r == AggregateApply(NewTask,
                    TaskCreated(title, Description, project_id,
                                AggregateIdOf(u, next_aggregate_id[u]), 0,
                                <<u, next_event_id[u]>>))
       IN /\ next_event_id' = [next_event_id EXCEPT ![u] = @ + 1]
          /\ next_aggregate_id' = [next_aggregate_id EXCEPT ![u] = @ + 1]
          /\ IF r.raised \/ RepoExists(u, r.obj.aggregate_id)
             THEN UNCHANGED <<identity_map, committed_sequence_ids>>
             ELSE /\ identity_map' =
                        [identity_map EXCEPT ![u] = Append(@, r.obj)]
                  /\ committed_sequence_ids' =
                        [committed_sequence_ids EXCEPT
                            ![u] = (r.obj.aggregate_id :> -1) @@ @]
    /\ NextCall(u)
    /\ UNCHANGED <<projection_vars, process_vars, store_vars>>

\* get recording -1, as add does, instead of the current sequence id.
GetWithoutBaseline(u, aggregate_id) ==
    /\ pc[u] = "idle"
    /\ ~InIdentityMap(u, aggregate_id)
    /\ LET r == Reconstruct(GetEventsFor(u, aggregate_id))
       IN IF r.raised \/ ~TaskValidate(r.obj)
          THEN /\ UNCHANGED <<identity_map, committed_sequence_ids, held>>
               /\ commit_result' = [commit_result EXCEPT
                                       ![u] = [NoResult EXCEPT !.status = "get raised"]]
          ELSE /\ identity_map' = [identity_map EXCEPT ![u] = Append(@, r.obj)]
               /\ committed_sequence_ids' =
                     [committed_sequence_ids EXCEPT ![u] = (aggregate_id :> -1) @@ @]
               /\ commit_result' = [commit_result EXCEPT ![u] = NoResult]
               /\ held' = [held EXCEPT ![u] = <<>>]
    /\ commit_events' = [commit_events EXCEPT ![u] = <<>>]
    /\ commit_next' = [commit_next EXCEPT ![u] = 1]
    /\ UNCHANGED <<pc, commit_locks, current_sequence_id>>
    /\ UNCHANGED <<projection_vars, process_vars, store_vars, uuid_vars>>

\* get that caches the reconstructed aggregate and records its baseline
\* before it validates it: what validate rejects stays in the identity map,
\* under the key it was asked for.
GetCachingUnvalidated(u, aggregate_id) ==
    /\ pc[u] = "idle"
    /\ ~InIdentityMap(u, aggregate_id)
    /\ LET r == Reconstruct(GetEventsFor(u, aggregate_id))
           cached == [r.obj EXCEPT !.aggregate_id = aggregate_id]
       IN /\ identity_map' = [identity_map EXCEPT ![u] = Append(@, cached)]
          /\ committed_sequence_ids' =
                [committed_sequence_ids EXCEPT
                    ![u] = (aggregate_id :> CurrentSequenceId(r.obj)) @@ @]
          /\ IF r.raised \/ ~TaskValidate(r.obj)
             THEN /\ UNCHANGED held
                  /\ commit_result' = [commit_result EXCEPT
                                          ![u] = [NoResult EXCEPT !.status = "get raised"]]
             ELSE /\ commit_result' = [commit_result EXCEPT ![u] = NoResult]
                  /\ held' = [held EXCEPT ![u] = <<>>]
    /\ commit_events' = [commit_events EXCEPT ![u] = <<>>]
    /\ commit_next' = [commit_next EXCEPT ![u] = 1]
    /\ UNCHANGED <<pc, commit_locks, current_sequence_id>>
    /\ UNCHANGED <<projection_vars, process_vars, store_vars, uuid_vars>>

\* Repo.get(aggregate_id) for an aggregate not yet in the identity map (for
\* one that is, get returns the cached instance and changes nothing).  The
\* aggregate is validated before it is cached: validate raises on the Task
\* that reconstruct builds from no events, which has no attribute, and the
\* caller, who got nothing back, keeps the references it had.
Get(u, aggregate_id) ==
    /\ pc[u] = "idle"
    /\ ~InIdentityMap(u, aggregate_id)
    /\ LET r == Reconstruct(GetEventsFor(u, aggregate_id))
       IN IF r.raised \/ ~TaskValidate(r.obj)
          THEN /\ UNCHANGED <<identity_map, committed_sequence_ids, held>>
               /\ commit_result' = [commit_result EXCEPT
                                       ![u] = [NoResult EXCEPT !.status = "get raised"]]
          ELSE /\ identity_map' = [identity_map EXCEPT ![u] = Append(@, r.obj)]
               /\ committed_sequence_ids' =
                     [committed_sequence_ids EXCEPT
                         ![u] = (aggregate_id :> CurrentSequenceId(r.obj)) @@ @]
               /\ commit_result' = [commit_result EXCEPT ![u] = NoResult]
               /\ held' = [held EXCEPT ![u] = <<>>]
    /\ commit_events' = [commit_events EXCEPT ![u] = <<>>]
    /\ commit_next' = [commit_next EXCEPT ![u] = 1]
    /\ UNCHANGED <<pc, commit_locks, current_sequence_id>>
    /\ UNCHANGED <<projection_vars, process_vars, store_vars, uuid_vars>>

\* A behaviour method of the i-th aggregate of the identity map.
Behaviour(u, i, kind, arg) ==
    /\ pc[u] = "idle"
    /\ i \in DOMAIN identity_map[u]
    /\ next_event_id[u] <= EventBudget(u)
    /\ LET obj == identity_map[u][i]
           r == AggregateApply(obj, BehaviourEvent(obj, kind, arg,
                                                   <<u, next_event_id[u]>>))
       IN /\ identity_map' = [identity_map EXCEPT ![u][i] = r.obj]
          /\ next_event_id' =
                [next_event_id EXCEPT ![u] = IF r.raised THEN @ ELSE @ + 1]
    /\ NextCall(u)
    /\ UNCHANGED <<projection_vars, process_vars, store_vars, next_aggregate_id, committed_sequence_ids>>

\* A behaviour method called on a reference the caller kept to an aggregate
\* that is no longer in the identity map (`task.update_title(...)` after
\* commit or rollback): the event is appended to that instance only.
\* appended_to_stale records the event, and whether the aggregate had
\* committed events then.
StaleBehaviour(u, i, kind, arg) ==
    /\ pc[u] = "idle"
    /\ i \in DOMAIN held[u]
    /\ ~InIdentityMap(u, held[u][i].aggregate_id)
    /\ next_event_id[u] <= EventBudget(u)
    /\ LET obj == held[u][i]
           r == AggregateApply(obj, BehaviourEvent(obj, kind, arg,
                                                   <<u, next_event_id[u]>>))
           committed == \E n \in DOMAIN log : log[n].aggregate_id = obj.aggregate_id
       IN /\ held' = [held EXCEPT ![u][i] = r.obj]
          /\ next_event_id' =
                [next_event_id EXCEPT ![u] = IF r.raised THEN @ ELSE @ + 1]
          /\ commit_result' =
                [commit_result EXCEPT
                    ![u] = [NoResult EXCEPT
                               !.status = IF r.raised THEN "none" ELSE "stale changed"]]
          /\ appended_to_stale' =
                IF r.raised THEN appended_to_stale
                ELSE appended_to_stale
                        \cup {[event_id |-> <<u, next_event_id[u]>>,
                               committed |-> committed]}
    /\ commit_events' = [commit_events EXCEPT ![u] = <<>>]
    /\ commit_next' = [commit_next EXCEPT ![u] = 1]
    /\ UNCHANGED <<projection_vars, reply, run_once, store_vars, next_aggregate_id,
                   identity_map, committed_sequence_ids, pc, commit_locks,
                   current_sequence_id>>

\* Any behaviour method of the i-th aggregate of the identity map.
AnyBehaviour(u, i) ==
    \/ \E call \in TitleCalls : Behaviour(u, i, call.kind, call.arg)
    \/ \E assignee_id \in AssigneeIds : Behaviour(u, i, "assign", assignee_id)
    \/ \E kind \in {"complete", "unassign"} : Behaviour(u, i, kind, None)

\* Repo.add(aggregate) with an aggregate the caller kept a reference to.
Add(u, aggregate) ==
    /\ pc[u] = "idle"
    /\ IF RepoExists(u, aggregate.aggregate_id)
       THEN /\ UNCHANGED <<identity_map, committed_sequence_ids>>
            /\ commit_result' = [commit_result EXCEPT
                                    ![u] = [NoResult EXCEPT !.status = "add raised"]]
       ELSE /\ identity_map' = [identity_map EXCEPT ![u] = Append(@, aggregate)]
            /\ committed_sequence_ids' =
                  [committed_sequence_ids EXCEPT
                      ![u] = (aggregate.aggregate_id :> -1) @@ @]
            /\ commit_result' = [commit_result EXCEPT
                                    ![u] = [NoResult EXCEPT !.status = "added"]]
    /\ held' = [held EXCEPT ![u] = <<aggregate>>]
    /\ commit_events' = [commit_events EXCEPT ![u] = <<>>]
    /\ commit_next' = [commit_next EXCEPT ![u] = 1]
    /\ UNCHANGED <<projection_vars, process_vars, store_vars, uuid_vars, pc, commit_locks,
                   current_sequence_id>>

\* Repo.get(aggregate_id) for an aggregate of the identity map: the cached
\* instance is returned to the caller, nothing is read or changed.
GetCached(u, aggregate_id) ==
    /\ pc[u] = "idle"
    /\ InIdentityMap(u, aggregate_id)
    /\ held' = [held EXCEPT ![u] = <<IdentityMapGet(u, aggregate_id)>>]
    /\ commit_events' = [commit_events EXCEPT ![u] = <<>>]
    /\ commit_next' = [commit_next EXCEPT ![u] = 1]
    /\ commit_result' = [commit_result EXCEPT
                            ![u] = [NoResult EXCEPT !.status = "got"]]
    /\ UNCHANGED <<projection_vars, process_vars, store_vars, uuid_vars, identity_map,
                   committed_sequence_ids, pc, commit_locks, current_sequence_id>>

\* The caller keeps, in variables of its own, the aggregates it created or
\* got in this transaction (`task = uow.tasks.get(...)`), as the tests do to
\* compare them with what a later get returns.
KeepReferences(u) ==
    /\ pc[u] = "idle"
    /\ identity_map[u] # <<>>
    /\ held[u] # identity_map[u]
    /\ held' = [held EXCEPT ![u] = identity_map[u]]
    /\ commit_result' = [commit_result EXCEPT ![u] = NoResult]
    /\ UNCHANGED <<projection_vars, process_vars, store_vars, uuid_vars, identity_map,
                   committed_sequence_ids, pc, commit_events, commit_locks,
                   commit_next, current_sequence_id>>

\* rollback that resets no repo.
RollbackWithoutReset(u) ==
    /\ pc[u] = "idle"
    /\ UNCHANGED <<identity_map, committed_sequence_ids>>
    /\ UNCHANGED held
    /\ commit_events' = [commit_events EXCEPT ![u] = <<>>]
    /\ commit_next' = [commit_next EXCEPT ![u] = 1]
    /\ commit_result' = [commit_result EXCEPT
                            ![u] = [NoResult EXCEPT !.status = "rolled back"]]
    /\ UNCHANGED <<projection_vars, process_vars, store_vars, uuid_vars, pc, commit_locks,
                   current_sequence_id>>

\* UoW.rollback
Rollback(u) ==
    /\ pc[u] = "idle"
    /\ identity_map' = [identity_map EXCEPT ![u] = <<>>]
    /\ committed_sequence_ids' = [committed_sequence_ids EXCEPT ![u] = <<>>]
    /\ UNCHANGED held
    /\ commit_events' = [commit_events EXCEPT ![u] = <<>>]
    /\ commit_next' = [commit_next EXCEPT ![u] = 1]
    /\ commit_result' = [commit_result EXCEPT
                            ![u] = [NoResult EXCEPT !.status = "rolled back"]]
    /\ UNCHANGED <<projection_vars, process_vars, store_vars, uuid_vars, pc, commit_locks,
                   current_sequence_id>>

\* commit without repo._reset_transaction().
CommitBeginKeepingMap(u) ==
    /\ pc[u] = "idle"
    /\ LET events == GetCommittableEvents(identity_map[u], committed_sequence_ids[u])
           locks == SetToSortedSeq({events[i].aggregate_id : i \in DOMAIN events})
       IN /\ commit_events' = [commit_events EXCEPT ![u] = events]
          /\ commit_locks' = [commit_locks EXCEPT ![u] = locks]
          /\ pc' = [pc EXCEPT ![u] = IF locks = <<>> THEN "writing" ELSE "locking"]
    /\ commit_next' = [commit_next EXCEPT ![u] = 1]
    /\ commit_result' = [commit_result EXCEPT
                            ![u] = [NoResult EXCEPT !.status = "running"]]
    /\ UNCHANGED <<identity_map, committed_sequence_ids, held>>
    /\ UNCHANGED <<projection_vars, process_vars, store_vars, uuid_vars, current_sequence_id>>

\* UoW.commit, up to entering `with self._event_store.transaction()`:
\* collect the committable events and their locks, reset the repos.
CommitBegin(u) ==
    /\ pc[u] = "idle"
    /\ LET events == GetCommittableEvents(identity_map[u], committed_sequence_ids[u])
           locks == SetToSortedSeq({events[i].aggregate_id : i \in DOMAIN events})
       IN /\ commit_events' = [commit_events EXCEPT ![u] = events]
          /\ commit_locks' = [commit_locks EXCEPT ![u] = locks]
          /\ pc' = [pc EXCEPT ![u] = IF locks = <<>> THEN "writing" ELSE "locking"]
    /\ commit_next' = [commit_next EXCEPT ![u] = 1]
    /\ commit_result' = [commit_result EXCEPT
                            ![u] = [NoResult EXCEPT !.status = "running"]]
    /\ identity_map' = [identity_map EXCEPT ![u] = <<>>]
    /\ committed_sequence_ids' = [committed_sequence_ids EXCEPT ![u] = <<>>]
    /\ UNCHANGED held
    /\ UNCHANGED <<projection_vars, process_vars, store_vars, uuid_vars, current_sequence_id>>

\* acquire_lock that does not wait for the holder of the lock.
AcquireLockNoWait(u) ==
    /\ UNCHANGED held
    /\ pc[u] = "locking"
    /\ advisory_locks' = [advisory_locks EXCEPT ![Head(commit_locks[u])] = u]
    /\ commit_locks' = [commit_locks EXCEPT ![u] = Tail(@)]
    /\ pc' = [pc EXCEPT ![u] = IF Tail(commit_locks[u]) = <<>> THEN "writing"
                               ELSE "locking"]
    /\ UNCHANGED <<projection_vars, process_vars, log, tx_rows, logical_time_seq, uuid_vars,
                   identity_map, committed_sequence_ids, commit_events, commit_next,
                   current_sequence_id, commit_result>>

\* commit iterating over the set of locks without sorted(): each caller
\* acquires its locks in an order of its own.
AcquireLockAnyOrder(u) ==
    /\ pc[u] = "locking"
    /\ \E i \in DOMAIN commit_locks[u] :
          LET k == commit_locks[u][i]
              rest == SubSeq(commit_locks[u], 1, i - 1)
                          \o SubSeq(commit_locks[u], i + 1, Len(commit_locks[u]))
          IN /\ advisory_locks[k] \in {None, u}
             /\ advisory_locks' = [advisory_locks EXCEPT ![k] = u]
             /\ commit_locks' = [commit_locks EXCEPT ![u] = rest]
             /\ pc' = [pc EXCEPT ![u] = IF rest = <<>> THEN "writing" ELSE "locking"]
    /\ UNCHANGED <<projection_vars, process_vars, log, tx_rows, logical_time_seq, uuid_vars,
                   identity_map, committed_sequence_ids, commit_events, commit_next,
                   current_sequence_id, commit_result, held>>

\* DBEventStore.acquire_lock for the next lock of the sorted list:
\* pg_advisory_xact_lock waits until no other session holds the lock.
AcquireLock(u) ==
    /\ UNCHANGED held
    /\ pc[u] = "locking"
    /\ LET k == Head(commit_locks[u])
       IN /\ advisory_locks[k] \in {None, u}
          /\ advisory_locks' = [advisory_locks EXCEPT ![k] = u]
    /\ commit_locks' = [commit_locks EXCEPT ![u] = Tail(@)]
    /\ pc' = [pc EXCEPT ![u] = IF Tail(commit_locks[u]) = <<>> THEN "writing"
                               ELSE "locking"]
    /\ UNCHANGED <<projection_vars, process_vars, log, tx_rows, logical_time_seq, uuid_vars, identity_map,
                   committed_sequence_ids, commit_events, commit_next,
                   current_sequence_id, commit_result>>

\* write taking the version the caller loaded as the current one, instead of
\* selecting it after the lock is held.
WriteSelectStale(u) ==
    /\ UNCHANGED held
    /\ pc[u] = "writing"
    /\ commit_next[u] <= Len(commit_events[u])
    /\ current_sequence_id' =
          [current_sequence_id EXCEPT
              ![u] = commit_events[u][commit_next[u]].sequence_id - 1]
    /\ pc' = [pc EXCEPT ![u] = "inserting"]
    /\ UNCHANGED <<projection_vars, process_vars, store_vars, uuid_vars, identity_map, committed_sequence_ids,
                   commit_events, commit_locks, commit_next, commit_result>>

\* DBEventStore.write, first statement: SELECT max(sequence_id)
WriteSelect(u) ==
    /\ UNCHANGED held
    /\ pc[u] = "writing"
    /\ commit_next[u] <= Len(commit_events[u])
    /\ current_sequence_id' =
          [current_sequence_id EXCEPT
              ![u] = SelectMaxSequenceId(VisibleRows(u),
                         commit_events[u][commit_next[u]].aggregate_id)]
    /\ pc' = [pc EXCEPT ![u] = "inserting"]
    /\ UNCHANGED <<projection_vars, process_vars, store_vars, uuid_vars, identity_map, committed_sequence_ids,
                   commit_events, commit_locks, commit_next, commit_result>>

\* write on a connection in autocommit mode: every inserted row is committed
\* at once.
WriteInsertAutocommit(u) ==
    /\ UNCHANGED held
    /\ pc[u] = "inserting"
    /\ LET event == commit_events[u][commit_next[u]]
       IN IF WrongSeqId(current_sequence_id[u], event)
          THEN /\ advisory_locks' = ReleaseLocks(u)
               /\ commit_result' =
                     [commit_result EXCEPT ![u].status = "raised",
                                           ![u].error = "Wrong seq id"]
               /\ pc' = [pc EXCEPT ![u] = "idle"]
               /\ UNCHANGED <<log, logical_time_seq, commit_next>>
          ELSE /\ logical_time_seq' = logical_time_seq + 1
               /\ log' = Append(log, EventRow(event, logical_time_seq + 1))
               /\ commit_result' =
                     [commit_result EXCEPT ![u].logical_time = logical_time_seq + 1]
               /\ commit_next' = [commit_next EXCEPT ![u] = @ + 1]
               /\ pc' = [pc EXCEPT ![u] = "writing"]
               /\ UNCHANGED advisory_locks
    /\ current_sequence_id' = [current_sequence_id EXCEPT ![u] = -1]
    /\ UNCHANGED <<projection_vars, process_vars, tx_rows, uuid_vars, identity_map,
                   committed_sequence_ids, commit_events, commit_locks>>

\* write as an upsert: where the sequence_id is taken, the committed row
\* with that sequence_id is overwritten instead of raising.
WriteInsertOverwrite(u) ==
    /\ UNCHANGED held
    /\ pc[u] = "inserting"
    /\ LET event == commit_events[u][commit_next[u]]
           row == EventRow(event, logical_time_seq + 1)
           Taken(r) == /\ r.aggregate_id = event.aggregate_id
                       /\ r.sequence_id = event.sequence_id
       IN IF \E i \in DOMAIN log : Taken(log[i])
          THEN /\ log' = [i \in DOMAIN log |-> IF Taken(log[i]) THEN row ELSE log[i]]
               /\ UNCHANGED tx_rows
          ELSE /\ tx_rows' = [tx_rows EXCEPT ![u] = Append(@, row)]
               /\ UNCHANGED log
    /\ logical_time_seq' = logical_time_seq + 1
    /\ commit_result' = [commit_result EXCEPT ![u].logical_time = logical_time_seq + 1]
    /\ commit_next' = [commit_next EXCEPT ![u] = @ + 1]
    /\ pc' = [pc EXCEPT ![u] = "writing"]
    /\ current_sequence_id' = [current_sequence_id EXCEPT ![u] = -1]
    /\ UNCHANGED <<projection_vars, process_vars, advisory_locks, uuid_vars, identity_map,
                   committed_sequence_ids, commit_events, commit_locks>>

\* DBEventStore.write, the check and the INSERT ... RETURNING logical_time.
\* A raise leaves `with transaction()` through session.rollback().
WriteInsert(u) ==
    /\ UNCHANGED held
    /\ pc[u] = "inserting"
    /\ LET event == commit_events[u][commit_next[u]]
       IN IF WrongSeqId(current_sequence_id[u], event)
          THEN /\ tx_rows' = [tx_rows EXCEPT ![u] = <<>>]
               /\ advisory_locks' = ReleaseLocks(u)
               /\ commit_result' =
                     [commit_result EXCEPT ![u].status = "raised",
                                           ![u].error = "Wrong seq id"]
               /\ pc' = [pc EXCEPT ![u] = "idle"]
               /\ UNCHANGED <<logical_time_seq, commit_next>>
          ELSE /\ logical_time_seq' = logical_time_seq + 1
               /\ tx_rows' = [tx_rows EXCEPT
                                ![u] = Append(@, EventRow(event, logical_time_seq + 1))]
               /\ commit_result' =
                     [commit_result EXCEPT ![u].logical_time = logical_time_seq + 1]
               /\ commit_next' = [commit_next EXCEPT ![u] = @ + 1]
               /\ pc' = [pc EXCEPT ![u] = "writing"]
               /\ UNCHANGED advisory_locks
    /\ current_sequence_id' = [current_sequence_id EXCEPT ![u] = -1]
    /\ UNCHANGED <<projection_vars, process_vars, log, uuid_vars, identity_map, committed_sequence_ids,
                   commit_events, commit_locks>>

\* Leaving `with transaction()` normally: session.commit() makes the
\* transaction's rows visible and ends it; commit returns logical_time.
SessionCommit(u) ==
    /\ UNCHANGED held
    /\ pc[u] = "writing"
    /\ commit_next[u] > Len(commit_events[u])
    /\ log' = log \o tx_rows[u]
    /\ tx_rows' = [tx_rows EXCEPT ![u] = <<>>]
    /\ advisory_locks' = ReleaseLocks(u)
    /\ commit_result' = [commit_result EXCEPT ![u].status = "returned"]
    /\ pc' = [pc EXCEPT ![u] = "idle"]
    /\ UNCHANGED <<projection_vars, process_vars, logical_time_seq, uuid_vars, identity_map,
                   committed_sequence_ids, commit_events, commit_locks, commit_next,
                   current_sequence_id>>

\* A statement of the transaction fails for a reason of the connection
\* (connection loss, lock timeout): the except branch of transaction().
ConnectionLost(u) ==
    /\ UNCHANGED held
    /\ pc[u] \in {"locking", "writing", "inserting"}
    /\ tx_rows' = [tx_rows EXCEPT ![u] = <<>>]
    /\ advisory_locks' = ReleaseLocks(u)
    /\ commit_result' = [commit_result EXCEPT ![u].status = "raised",
                                              ![u].error = "connection lost"]
    /\ pc' = [pc EXCEPT ![u] = "idle"]
    /\ commit_locks' = [commit_locks EXCEPT ![u] = <<>>]
    /\ current_sequence_id' = [current_sequence_id EXCEPT ![u] = -1]
    /\ UNCHANGED <<projection_vars, process_vars, log, logical_time_seq, uuid_vars, identity_map,
                   committed_sequence_ids, commit_events, commit_next>>

\* A client of the event store without a Unit of Work enters
\* `with event_store.transaction()`.
StoreTransaction(u) ==
    /\ UNCHANGED held
    /\ pc[u] = "idle"
    /\ next_event_id[u] <= MaxWrites
    /\ pc' = [pc EXCEPT ![u] = "writing"]
    /\ commit_events' = [commit_events EXCEPT ![u] = <<>>]
    /\ commit_next' = [commit_next EXCEPT ![u] = 1]
    /\ commit_result' = [commit_result EXCEPT
                            ![u] = [NoResult EXCEPT !.status = "running"]]
    /\ UNCHANGED <<projection_vars, process_vars, store_vars, uuid_vars, identity_map,
                   committed_sequence_ids, commit_locks, current_sequence_id>>

\* The events such a client may hand to write: any aggregate_id, any
\* sequence_id.
StoreEvents(event_id) ==
    {TaskCreated(title, Description, project_id, aggregate_id, sequence_id, event_id) :
        title \in CreateTitles, project_id \in ProjectIds,
        aggregate_id \in AggregateIds, sequence_id \in 0..MaxSequenceId}
    \cup {TaskTitleChanged(call.arg, aggregate_id, sequence_id, event_id) :
        call \in BehaviourCalls, aggregate_id \in AggregateIds,
        sequence_id \in 0..MaxSequenceId}

\* The client calls event_store.write(event) inside its transaction; the
\* statements of write are WriteSelect and WriteInsert.
StoreWrite(u, event) ==
    /\ UNCHANGED held
    /\ pc[u] = "writing"
    /\ commit_next[u] > Len(commit_events[u])
    /\ next_event_id[u] <= MaxWrites
    /\ commit_events' = [commit_events EXCEPT ![u] = Append(@, event)]
    /\ next_event_id' = [next_event_id EXCEPT ![u] = @ + 1]
    /\ UNCHANGED <<projection_vars, process_vars, store_vars, next_aggregate_id, identity_map,
                   committed_sequence_ids, pc, commit_locks, commit_next,
                   current_sequence_id, commit_result>>

\* ------------------------------------------------------------------ projections

Projections == {"tasks", "task_history"}

\* Projection.EVENT_CLASSES
EVENT_CLASSES(p) ==
    CASE p = "tasks" -> TASK_EVENT_TYPES
      [] p = "task_history" -> {"TaskTitleChanged", "TaskCompleted"}

\* Projection.__init__ on an empty projections database: the housekeeping
\* row, and no read-model rows.  `applied` is history: the logical times of
\* the events whose handler effects the state holds, in handling order.
NewProjection ==
    [last_seen_logical_time |-> -1, observed_event_count |-> 0,
     tasks |-> <<>>, project_stats |-> <<>>, task_history |-> <<>>,
     applied |-> <<>>]

NewProjectStats ==
    [completed_task_count |-> 0, task_count |-> 0, unassigned_task_count |-> 0]

\* TaskProjection._apply: the handler registered for the event's type.
\* raised: session.get returned None for the task (AttributeError), the task
\* row exists already (primary key), or no handler is registered
\* (NotImplementedError).
TaskProjectionApply(rm, event) ==
    LET id == event.aggregate_id
        known == id \in DOMAIN rm.tasks
        pid == rm.tasks[id].project_id
        Raise == [state |-> rm, raised |-> TRUE]
        Ok(new) == [state |-> new, raised |-> FALSE]
    IN CASE event.event_type = "TaskCreated" ->
              IF known THEN Raise
              ELSE LET stats == IF event.project_id \in DOMAIN rm.project_stats
                                THEN rm.project_stats[event.project_id]
                                ELSE NewProjectStats
                       stats2 == [stats EXCEPT !.task_count = @ + 1,
                                               !.unassigned_task_count = @ + 1]
                   IN Ok([rm EXCEPT
                            !.project_stats = (event.project_id :> stats2) @@ @,
                            !.tasks = (id :> [title |-> event.title,
                                              completed |-> FALSE,
                                              project_id |-> event.project_id,
                                              assignee_id |-> None]) @@ @])
         [] event.event_type = "TaskTitleChanged" ->
              IF ~known THEN Raise
              ELSE Ok([rm EXCEPT !.tasks[id].title = event.title])
         [] event.event_type = "TaskCompleted" ->
              IF ~known THEN Raise
              ELSE Ok([rm EXCEPT
                         !.tasks[id].completed = TRUE,
                         !.project_stats[pid].completed_task_count = @ + 1])
         [] event.event_type = "TaskAssigned" ->
              IF ~known THEN Raise
              ELSE Ok([rm EXCEPT
                         !.tasks[id].assignee_id = event.assignee_id,
                         !.project_stats[pid].unassigned_task_count = @ - 1])
         [] event.event_type = "TaskUnassigned" ->
              IF ~known THEN Raise
              ELSE Ok([rm EXCEPT
                         !.tasks[id].assignee_id = None,
                         !.project_stats[pid].unassigned_task_count = @ + 1])
         [] OTHER -> Raise

\* TaskHistoryProjection._apply
TaskHistoryProjectionApply(rm, event) ==
    CASE event.event_type = "TaskTitleChanged" ->
            [state |-> [rm EXCEPT !.task_history =
                            Append(@, [task_id |-> event.aggregate_id,
                                       type |-> "ChangeTitle",
                                       value |-> event.title])],
             raised |-> FALSE]
      [] event.event_type = "TaskCompleted" ->
            [state |-> [rm EXCEPT !.task_history =
                            Append(@, [task_id |-> event.aggregate_id,
                                       type |-> "Completed",
                                       value |-> NoTitle])],
             raised |-> FALSE]
      [] OTHER -> [state |-> rm, raised |-> TRUE]

ProjectionApply(p, rm, event) ==
    CASE p = "tasks" -> TaskProjectionApply(rm, event)
      [] p = "task_history" -> TaskHistoryProjectionApply(rm, event)

\* The event types a handler is registered for with @_apply.register.
HandledTypes(p) ==
    CASE p = "tasks" ->
            {"TaskCreated", "TaskTitleChanged", "TaskCompleted", "TaskAssigned",
             "TaskUnassigned"}
      [] p = "task_history" -> {"TaskTitleChanged", "TaskCompleted"}

\* The loop iteration storing the event's sequence_id as the checkpoint.
HandleRecordedEventSequenceId(p, rm, recorded_event) ==
    LET r == ProjectionApply(p, rm, recorded_event.event)
    IN IF r.raised THEN r
       ELSE [state |-> [r.state EXCEPT
                          !.last_seen_logical_time = recorded_event.event.sequence_id,
                          !.observed_event_count = @ + 1,
                          !.applied = Append(@, recorded_event.logical_time)],
             raised |-> FALSE]

\* The loop iteration without the assignment of last_seen_logical_time.
HandleRecordedEventCountOnly(p, rm, recorded_event) ==
    LET r == ProjectionApply(p, rm, recorded_event.event)
    IN IF r.raised THEN r
       ELSE [state |-> [r.state EXCEPT
                          !.observed_event_count = @ + 1,
                          !.applied = Append(@, recorded_event.logical_time)],
             raised |-> FALSE]

\* One iteration of the loop of update_from_events / consume: the handler,
\* then the in-memory housekeeping attributes.
HandleRecordedEvent(p, rm, recorded_event) ==
    LET r == ProjectionApply(p, rm, recorded_event.event)
    IN IF r.raised THEN r
       ELSE [state |-> [r.state EXCEPT
                          !.last_seen_logical_time = recorded_event.logical_time,
                          !.observed_event_count = @ + 1,
                          !.applied = Append(@, recorded_event.logical_time)],
             raised |-> FALSE]

\* The loop over the fetched events, stopping at a handler that raises.
RECURSIVE HandleAll(_, _, _)
HandleAll(p, rm, recorded_events) ==
    IF recorded_events = <<>> THEN [state |-> rm, raised |-> FALSE]
    ELSE LET r == HandleRecordedEvent(p, rm, Head(recorded_events))
         IN IF r.raised THEN r ELSE HandleAll(p, r.state, Tail(recorded_events))

\* The events a consume call of p fetches: from the in-memory housekeeping
\* object, over the committed rows of the events table.
FetchFor(p, from_state) ==
    GetEventsStartingAt(Range(log), from_state.last_seen_logical_time,
                        EVENT_CLASSES(p))

LogicalTimes(recorded_events) ==
    [i \in DOMAIN recorded_events |-> recorded_events[i].logical_time]

\* logical_time_seen comparing with > instead of >=.
LogicalTimeSeenStrict(p, logical_time) ==
    durable[p].last_seen_logical_time > logical_time

\* Projection.logical_time_seen: refreshes the housekeeping row from the
\* projections database.
LogicalTimeSeen(p, logical_time) ==
    durable[p].last_seen_logical_time >= logical_time

\* update_from_events / consume up to, not including, session.commit():
\* the query and the loop.  The handlers' writes and the housekeeping update
\* are pending in the session.  When a handler raises, consume raises: the
\* consumer object is dropped with its session (ConsumerGroup.run_once builds
\* a new one per pass) and nothing of the cycle is committed.
ConsumeLoop(p) ==
    /\ consumer_pc[p] = "idle"
    /\ LET recorded_events == FetchFor(p, session[p])
           r == HandleAll(p, session[p], recorded_events)
       IN /\ fetched' = [fetched EXCEPT
                            ![p] = @ \cup Range(LogicalTimes(recorded_events))]
          /\ IF r.raised
             THEN /\ session' = [session EXCEPT ![p] = durable[p]]
                  /\ UNCHANGED <<consumer_pc, batch>>
             ELSE /\ session' = [session EXCEPT ![p] = r.state]
                  /\ batch' = [batch EXCEPT ![p] = LogicalTimes(recorded_events)]
                  /\ consumer_pc' = [consumer_pc EXCEPT ![p] = "applied"]
    /\ UNCHANGED <<durable, store_vars, uow_vars, uuid_vars, process_vars>>

\* consume ending with session.flush() instead of session.commit(): nothing
\* is committed, the in-memory housekeeping object stays advanced.
ConsumeFlushOnly(p) ==
    /\ consumer_pc[p] = "applied"
    /\ consumer_pc' = [consumer_pc EXCEPT ![p] = "idle"]
    /\ batch' = [batch EXCEPT ![p] = <<>>]
    /\ UNCHANGED <<durable, session, fetched, store_vars, uow_vars, uuid_vars, process_vars>>

\* session.commit() of a session that all projections share: what any of
\* them has pending is committed with it.
ConsumeCommitSharedSession(p) ==
    /\ consumer_pc[p] = "applied"
    /\ durable' = session
    /\ consumer_pc' = [consumer_pc EXCEPT ![p] = "idle"]
    /\ batch' = [batch EXCEPT ![p] = <<>>]
    /\ UNCHANGED <<session, fetched, store_vars, uow_vars, uuid_vars, process_vars>>

\* session.commit() at the end of consume: handler writes and housekeeping
\* row are committed in the one transaction of the session.
ConsumeCommit(p) ==
    /\ consumer_pc[p] = "applied"
    /\ durable' = [durable EXCEPT ![p] = session[p]]
    /\ consumer_pc' = [consumer_pc EXCEPT ![p] = "idle"]
    /\ batch' = [batch EXCEPT ![p] = <<>>]
    /\ UNCHANGED <<session, fetched, store_vars, uow_vars, uuid_vars, process_vars>>

\* The consumer process is killed before session.commit(): the open
\* transaction of its session is rolled back by the database.  session and
\* batch keep what the killed cycle had fetched and was about to commit.
ConsumerKilled(p) ==
    /\ consumer_pc[p] = "applied"
    /\ consumer_pc' = [consumer_pc EXCEPT ![p] = "killed"]
    /\ UNCHANGED <<durable, session, batch, fetched, store_vars, uow_vars,
                   uuid_vars, process_vars>>

\* Projection.__init__ of the restarted process: session.get(housekeeping, 1)
ConsumerRestart(p) ==
    /\ consumer_pc[p] = "killed"
    /\ session' = [session EXCEPT ![p] = durable[p]]
    /\ batch' = [batch EXCEPT ![p] = <<>>]
    /\ consumer_pc' = [consumer_pc EXCEPT ![p] = "idle"]
    /\ UNCHANGED <<durable, fetched, store_vars, uow_vars, uuid_vars, process_vars>>

\* ------------------------------------------------------------------ queries

\* A client with a session of its own on the events database (it sees the
\* committed rows) and a Projection object of its own on the projections
\* database.  reply is what its last call returned.
NoReply == [op |-> "none", args |-> <<>>, result |-> <<>>]

\* The type filters the client passes: the EVENT_CLASSES of Consumer (none),
\* SendAssignmentNotificationConsumer, TaskHistoryProjection, TaskProjection.
QueryTypes ==
    {{}, {"TaskAssigned"}, {"TaskTitleChanged", "TaskCompleted"}, TASK_EVENT_TYPES}

\* The watermarks the client passes.
QueryLogicalTimes == (-1)..MaxWrites

\* list(event_store.get_events_starting_at(logical_time, types))
QueryEventsStartingAt(logical_time, types) ==
    /\ reply' = [op |-> "get_events_starting_at", args |-> <<logical_time, types>>,
                 result |-> GetEventsStartingAt(Range(log), logical_time, types)]
    /\ UNCHANGED <<store_vars, uow_vars, uuid_vars, projection_vars, run_once,
                   appended_to_stale>>

\* list(event_store.get_events(aggregate_id, types))
QueryEvents(aggregate_id, types) ==
    /\ reply' = [op |-> "get_events", args |-> <<aggregate_id, types>>,
                 result |-> GetEvents(Range(log), aggregate_id, types)]
    /\ UNCHANGED <<store_vars, uow_vars, uuid_vars, projection_vars, run_once,
                   appended_to_stale>>

\* projection.logical_time_seen(logical_time), on the client's Projection
\* object of projection p
QueryLogicalTimeSeen(p, logical_time) ==
    /\ reply' = [op |-> "logical_time_seen", args |-> <<p, logical_time>>,
                 result |-> LogicalTimeSeen(p, logical_time)]
    /\ UNCHANGED <<store_vars, uow_vars, uuid_vars, projection_vars, run_once,
                   appended_to_stale>>


\* ------------------------------------------------------------------ consumer group

\* ConsumerGroup._consumers, in the order of the list.
GroupConsumers == <<"tasks", "task_history">>

\* ConsumerGroup.run_once before its loop: at the first consumer.  logged is
\* the log written by logging.exception: the consumers whose last consume
\* raised.
NewRunOnce == [consumer |-> 1, logged |-> {}]

\* run_once with the try around the loop instead of inside it: the first
\* exception ends the pass.
RunOnceConsumerAbort ==
    /\ run_once.consumer \in DOMAIN GroupConsumers
    /\ LET p == GroupConsumers[run_once.consumer]
           recorded_events == FetchFor(p, durable[p])
           r == HandleAll(p, durable[p], recorded_events)
       IN /\ consumer_pc[p] = "idle"
          /\ fetched' = [fetched EXCEPT
                            ![p] = @ \cup Range(LogicalTimes(recorded_events))]
          /\ batch' = [batch EXCEPT ![p] = LogicalTimes(recorded_events)]
          /\ IF r.raised
             THEN /\ session' = [session EXCEPT ![p] = durable[p]]
                  /\ run_once' = [consumer |-> Len(GroupConsumers) + 1,
                                  logged |-> run_once.logged \cup {p}]
                  /\ UNCHANGED durable
             ELSE /\ session' = [session EXCEPT ![p] = r.state]
                  /\ durable' = [durable EXCEPT ![p] = r.state]
                  /\ run_once' = [consumer |-> run_once.consumer + 1,
                                  logged |-> run_once.logged \ {p}]
    /\ UNCHANGED <<consumer_pc, store_vars, uow_vars, uuid_vars, reply,
                   appended_to_stale>>

\* One iteration of run_once's loop: `consumer(session).consume(event_store)`
\* inside try/except.  The consumer object is new: its housekeeping is the
\* persisted row.  consume fetches, handles and commits; when a handler
\* raises, nothing of the cycle is committed, the exception is logged and the
\* loop goes on with the next consumer.  batch is what this cycle fetched.
RunOnceConsumer ==
    /\ run_once.consumer \in DOMAIN GroupConsumers
    /\ LET p == GroupConsumers[run_once.consumer]
           recorded_events == FetchFor(p, durable[p])
           r == HandleAll(p, durable[p], recorded_events)
       IN /\ consumer_pc[p] = "idle"
          /\ fetched' = [fetched EXCEPT
                            ![p] = @ \cup Range(LogicalTimes(recorded_events))]
          /\ batch' = [batch EXCEPT ![p] = LogicalTimes(recorded_events)]
          /\ IF r.raised
             THEN /\ session' = [session EXCEPT ![p] = durable[p]]
                  /\ run_once' = [consumer |-> run_once.consumer + 1,
                                  logged |-> run_once.logged \cup {p}]
                  /\ UNCHANGED durable
             ELSE /\ session' = [session EXCEPT ![p] = r.state]
                  /\ durable' = [durable EXCEPT ![p] = r.state]
                  /\ run_once' = [consumer |-> run_once.consumer + 1,
                                  logged |-> run_once.logged \ {p}]
    /\ UNCHANGED <<consumer_pc, store_vars, uow_vars, uuid_vars, reply,
                   appended_to_stale>>

\* The loop of run_once is over: session.close(); run_forever sleeps and
\* calls run_once again.
RunOnceEnd ==
    /\ run_once.consumer > Len(GroupConsumers)
    /\ run_once' = [run_once EXCEPT !.consumer = 1]
    /\ UNCHANGED <<store_vars, uow_vars, uuid_vars, projection_vars, reply,
                   appended_to_stale>>

vars == <<store_vars, uow_vars, uuid_vars, projection_vars, process_vars>>

Init ==
    /\ log = <<>>
    /\ tx_rows = [u \in Callers |-> <<>>]
    /\ logical_time_seq = 0
    /\ advisory_locks = [k \in AllAggregateIds |-> None]
    /\ identity_map = [u \in Callers |-> <<>>]
    /\ committed_sequence_ids = [u \in Callers |-> <<>>]
    /\ pc = [u \in Callers |-> "idle"]
    /\ commit_events = [u \in Callers |-> <<>>]
    /\ commit_locks = [u \in Callers |-> <<>>]
    /\ commit_next = [u \in Callers |-> 1]
    /\ current_sequence_id = [u \in Callers |-> -1]
    /\ commit_result = [u \in Callers |->
                           NoResult]
    /\ held = [u \in Callers |-> <<>>]
    /\ durable = [p \in Projections |-> NewProjection]
    /\ session = [p \in Projections |-> NewProjection]
    /\ consumer_pc = [p \in Projections |-> "idle"]
    /\ batch = [p \in Projections |-> <<>>]
    /\ fetched = [p \in Projections |-> {}]
    /\ next_event_id = [u \in Callers |-> 1]
    /\ next_aggregate_id = [u \in Callers |-> 1]
    /\ reply = NoReply
    /\ run_once = NewRunOnce
    /\ appended_to_stale = {}

\* ------------------------------------------------------------------ specifications

\* The calls of one caller on its Unit of Work, commit step by step.
CallerStep(u) ==
    \/ \E title \in CreateTitles, project_id \in ProjectIds :
          Create(u, title, project_id)
    \/ \E aggregate_id \in AggregateIds : Get(u, aggregate_id)
    \/ \E i \in 1..Cardinality(AggregateIds), call \in BehaviourCalls :
          Behaviour(u, i, call.kind, call.arg)
    \/ CommitBegin(u)
    \/ AcquireLock(u)
    \/ WriteSelect(u)
    \/ WriteInsert(u)
    \/ SessionCommit(u)

\* Concurrent callers on the events database.
Next ==
    \/ \E u \in UoWs : CallerStep(u)
    \/ \E u \in UoWs : ConnectionLost(u)

Spec == Init /\ [][Next]_vars

\* Concurrent callers and the TaskProjection consumer beside them.
RunningProjections == {"tasks"}

NextProjection ==
    \/ \E u \in UoWs : CallerStep(u)
    \/ \E p \in RunningProjections : ConsumeLoop(p)
    \/ \E p \in RunningProjections : ConsumeCommit(p)
    \/ \E p \in RunningProjections : ConsumerKilled(p)
    \/ \E p \in RunningProjections : ConsumerRestart(p)

SpecProjection == Init /\ [][NextProjection]_vars

\* One client calling DBEventStore.write itself, inside transactions.
StoreClients == {"uow1"}

NextStore ==
    \/ \E u \in StoreClients : StoreTransaction(u)
    \/ \E u \in StoreClients :
          \E event \in StoreEvents(<<u, next_event_id[u]>>) : StoreWrite(u, event)
    \/ \E u \in StoreClients : WriteSelect(u)
    \/ \E u \in StoreClients : WriteInsert(u)
    \/ \E u \in StoreClients : SessionCommit(u)
    \/ \E u \in StoreClients : ConnectionLost(u)

SpecStore == Init /\ [][NextStore]_vars

\* One caller using its Unit of Work with every kind of call, valid and
\* invalid arguments, rollback and add of aggregates it kept.

UoWStep(u) ==
    \/ \E title \in CreateTitles \cup InvalidTitles, project_id \in ProjectIds :
          Create(u, title, project_id)
    \/ \E aggregate_id \in AllAggregateIds : Get(u, aggregate_id)
    \/ \E aggregate_id \in AllAggregateIds : GetCached(u, aggregate_id)
    \/ \E i \in 1..Cardinality(AllAggregateIds) : AnyBehaviour(u, i)
    \/ KeepReferences(u)
    \/ \E i \in DOMAIN held[u] : Add(u, held[u][i])
    \/ Rollback(u)
    \/ CommitBegin(u)
    \/ AcquireLock(u)
    \/ WriteSelect(u)
    \/ WriteInsert(u)
    \/ SessionCommit(u)

NextUoW == \E u \in UoWCallers : UoWStep(u)

SpecUoW == Init /\ [][NextUoW]_vars

\* The lone caller, also calling behaviour methods on the references it kept
\* to aggregates that have left the identity map.
NextStale ==
    \/ \E u \in UoWCallers : UoWStep(u)
    \/ \E u \in UoWCallers : \E i \in 1..Cardinality(AllAggregateIds) :
          \E call \in BehaviourCalls : StaleBehaviour(u, i, call.kind, call.arg)

SpecStale == Init /\ [][NextStale]_vars

\* The database after the lone caller has created and committed its tasks:
\* the state in which the concurrent callers start to change the same tasks.
SharedAggregateIds == AggregateIdsOf(UoWCallers)
SharedLog ==
    LET ids == SetToSortedSeq(SharedAggregateIds)
    IN [n \in DOMAIN ids |->
           EventRow(TaskCreated(StrValue("Do it"), Description, "project1", ids[n], 0,
                                <<"uow3", n>>), n)]

InitShared ==
    /\ log = SharedLog
    /\ tx_rows = [u \in Callers |-> <<>>]
    /\ logical_time_seq = Len(SharedLog)
    /\ advisory_locks = [k \in AllAggregateIds |-> None]
    /\ identity_map = [u \in Callers |-> <<>>]
    /\ committed_sequence_ids = [u \in Callers |-> <<>>]
    /\ pc = [u \in Callers |-> "idle"]
    /\ commit_events = [u \in Callers |-> <<>>]
    /\ commit_locks = [u \in Callers |-> <<>>]
    /\ commit_next = [u \in Callers |-> 1]
    /\ current_sequence_id = [u \in Callers |-> -1]
    /\ commit_result = [u \in Callers |-> NoResult]
    /\ held = [u \in Callers |-> <<>>]
    /\ durable = [p \in Projections |-> NewProjection]
    /\ session = [p \in Projections |-> NewProjection]
    /\ consumer_pc = [p \in Projections |-> "idle"]
    /\ batch = [p \in Projections |-> <<>>]
    /\ fetched = [p \in Projections |-> {}]
    /\ next_event_id = [u \in Callers |->
                           IF u \in UoWCallers THEN Len(SharedLog) + 1 ELSE 1]
    /\ next_aggregate_id = [u \in Callers |->
                               IF u \in UoWCallers THEN Len(SharedLog) + 1 ELSE 1]
    /\ reply = NoReply
    /\ run_once = NewRunOnce
    /\ appended_to_stale = {}

\* Two callers getting and changing the shared tasks, then committing.
SharedStep(u) ==
    \/ \E aggregate_id \in SharedAggregateIds : Get(u, aggregate_id)
    \/ \E i \in 1..Cardinality(SharedAggregateIds), call \in BehaviourCalls :
          Behaviour(u, i, call.kind, call.arg)
    \/ CommitBegin(u)
    \/ AcquireLock(u)
    \/ WriteSelect(u)
    \/ WriteInsert(u)
    \/ SessionCommit(u)

NextShared == \E u \in UoWs : SharedStep(u)

\* A commit that can take its next step takes it: the database grants a free
\* lock to a waiting session and executes the statements it is sent.
FairCommit(u) ==
    /\ WF_vars(AcquireLock(u))
    /\ WF_vars(WriteSelect(u))
    /\ WF_vars(WriteInsert(u))
    /\ WF_vars(SessionCommit(u))

SpecShared == InitShared /\ [][NextShared]_vars /\ \A u \in UoWs : FairCommit(u)

\* The client of DBEventStore.write and, beside it, the reading client.
NextQuery ==
    \/ \E u \in StoreClients : StoreTransaction(u)
    \/ \E u \in StoreClients :
          \E event \in StoreEvents(<<u, next_event_id[u]>>) : StoreWrite(u, event)
    \/ \E u \in StoreClients : WriteSelect(u)
    \/ \E u \in StoreClients : WriteInsert(u)
    \/ \E u \in StoreClients : SessionCommit(u)
    \/ \E logical_time \in QueryLogicalTimes, types \in QueryTypes :
          QueryEventsStartingAt(logical_time, types)
    \/ \E aggregate_id \in AggregateIds, types \in QueryTypes :
          QueryEvents(aggregate_id, types)

SpecQuery == Init /\ [][NextQuery]_vars

\* The client of DBEventStore.write, the TaskProjection consumer, and the
\* client that polls logical_time_seen.
NextSeen ==
    \/ \E u \in StoreClients : StoreTransaction(u)
    \/ \E u \in StoreClients :
          \E event \in StoreEvents(<<u, next_event_id[u]>>) : StoreWrite(u, event)
    \/ \E u \in StoreClients : WriteSelect(u)
    \/ \E u \in StoreClients : WriteInsert(u)
    \/ \E u \in StoreClients : SessionCommit(u)
    \/ \E p \in RunningProjections : ConsumeLoop(p)
    \/ \E p \in RunningProjections : ConsumeCommit(p)
    \/ \E p \in RunningProjections, logical_time \in QueryLogicalTimes :
          QueryLogicalTimeSeen(p, logical_time)

SpecSeen == Init /\ [][NextSeen]_vars

\* The client of DBEventStore.write and the consumer group beside it.
NextGroup ==
    \/ \E u \in StoreClients : StoreTransaction(u)
    \/ \E u \in StoreClients :
          \E event \in StoreEvents(<<u, next_event_id[u]>>) : StoreWrite(u, event)
    \/ \E u \in StoreClients : WriteSelect(u)
    \/ \E u \in StoreClients : WriteInsert(u)
    \/ \E u \in StoreClients : SessionCommit(u)
    \/ RunOnceConsumer
    \/ RunOnceEnd

SpecGroup == Init /\ [][NextGroup]_vars

\* Everything that runs against the events database: the concurrent callers
\* with their commits, failing writes and rollbacks, and the consume cycles of the TaskProjection consumer.
NextLog ==
    \/ \E u \in UoWs : CallerStep(u)
    \/ \E u \in UoWs : Rollback(u)
    \/ \E p \in RunningProjections : ConsumeLoop(p)
    \/ \E p \in RunningProjections : ConsumeCommit(p)

SpecLog == Init /\ [][NextLog]_vars

\* Two clients calling DBEventStore.write themselves, each inside its own
\* transaction and neither calling acquire_lock.
RaceClients == {"uow1", "uow2"}

\* The events they hand to write: the creation of one task and changes of
\* its title, with any sequence_id.
RaceAggregateId == AggregateIdOf("uow1", 1)
RaceEvents(event_id) ==
    {event \in StoreEvents(event_id) :
        /\ event.aggregate_id = RaceAggregateId
        /\ event.event_type = "TaskCreated" => event.sequence_id = 0}

NextRace ==
    \/ \E u \in RaceClients : StoreTransaction(u)
    \/ \E u \in RaceClients :
          \E event \in RaceEvents(<<u, next_event_id[u]>>) : StoreWrite(u, event)
    \/ \E u \in RaceClients : WriteSelect(u)
    \/ \E u \in RaceClients : WriteInsert(u)
    \/ \E u \in RaceClients : SessionCommit(u)

SpecRace == Init /\ [][NextRace]_vars

\* One caller committing through its Unit of Work, and both projections
\* consuming in loops that keep running (ConsumerGroup.run_forever): a
\* consume cycle that can start starts, and one that has handled its batch
\* commits.  Nothing obliges the caller to make a further call.
WaitingCallers == {"uow1"}

NextWait ==
    \/ \E u \in WaitingCallers : CallerStep(u)
    \/ \E p \in Projections : ConsumeLoop(p)
    \/ \E p \in Projections : ConsumeCommit(p)

FairConsume(p) ==
    /\ WF_vars(ConsumeLoop(p))
    /\ WF_vars(ConsumeCommit(p))

SpecWait == Init /\ [][NextWait]_vars /\ \A p \in Projections : FairConsume(p)

\* A caller with its commits, failing commits and rollbacks, and the consume
\* cycles of both projections beside it.
FrameCallers == {"uow1"}

NextFrame ==
    \/ \E u \in FrameCallers : CallerStep(u)
    \/ \E u \in FrameCallers : ConnectionLost(u)
    \/ \E u \in FrameCallers : Rollback(u)
    \/ \E p \in Projections : ConsumeLoop(p)
    \/ \E p \in Projections : ConsumeCommit(p)

SpecFrame == Init /\ [][NextFrame]_vars

\* ------------------------------------------------------------------ claims

CommittedRowsOf(aggregate_id) ==
    {i \in DOMAIN log : log[i].aggregate_id = aggregate_id}

EventIds(events) == {events[i].event_id : i \in DOMAIN events}

InLog(event_id) == \E i \in DOMAIN log : log[i].event_id = event_id

Finished(u) == pc[u] = "idle" /\ commit_result[u].status \in {"returned", "raised"}

\* C1: in every reachable state, for each aggregate_id the sequence_ids of
\* its committed events are exactly 0 .. n-1, n the number of its committed
\* events: no gap and no duplicate, whatever commits succeeded or failed.
C1_SequenceContiguity ==
    \A a \in AggregateIds :
        {log[i].sequence_id : i \in CommittedRowsOf(a)}
            = 0..(Cardinality(CommittedRowsOf(a)) - 1)

\* C1 witness: an aggregate has two committed events and a commit on a
\* stale version of an aggregate has failed with the conflict error.
C1_Witness ==
    /\ \E a \in AggregateIds : Cardinality(CommittedRowsOf(a)) >= 2
    /\ \E u \in UoWs : Finished(u) /\ commit_result[u].error = "Wrong seq id"

\* The two commits stage an event with the same sequence_id for the same
\* aggregate.
SameSequenceIdStaged(u1, u2) ==
    \E i \in DOMAIN commit_events[u1], j \in DOMAIN commit_events[u2] :
        /\ commit_events[u1][i].aggregate_id = commit_events[u2][j].aggregate_id
        /\ commit_events[u1][i].sequence_id = commit_events[u2][j].sequence_id

\* The commit of u was refused by write's check at an event that u2 staged too.
ConflictWith(u, u2) ==
    /\ commit_result[u].status = "raised"
    /\ commit_result[u].error = "Wrong seq id"
    /\ \E j \in DOMAIN commit_events[u2] :
        /\ commit_events[u][commit_next[u]].aggregate_id
              = commit_events[u2][j].aggregate_id
        /\ commit_events[u][commit_next[u]].sequence_id
              = commit_events[u2][j].sequence_id

\* C2: of two commits that stage sequence_id k for the same aggregate, never
\* both succeed; a commit that fails has none of its events in the log; and
\* when neither fails for another reason than write's check on the shared
\* event, exactly one succeeds and the other raised "Wrong seq id".
C2_OptimisticConcurrency ==
    \A u1 \in UoWs : \A u2 \in UoWs \ {u1} :
        (Finished(u1) /\ Finished(u2) /\ SameSequenceIdStaged(u1, u2)) =>
            /\ ~(commit_result[u1].status = "returned"
                    /\ commit_result[u2].status = "returned")
            /\ \A u \in {u1, u2} :
                  commit_result[u].status = "raised" =>
                      \A id \in EventIds(commit_events[u]) : ~InLog(id)
            /\ ((commit_result[u1].status = "returned" \/ ConflictWith(u1, u2))
                  /\ (commit_result[u2].status = "returned" \/ ConflictWith(u2, u1)))
               => \E w \in {u1, u2} :
                     /\ commit_result[w].status = "returned"
                     /\ \A id \in EventIds(commit_events[w]) : InLog(id)
                     /\ \A l \in {u1, u2} \ {w} : ConflictWith(l, w)

\* C2 witness: two finished commits staged the same sequence_id for the same
\* aggregate; one returned, the other raised the conflict error on it.
C2_Witness ==
    \E u1 \in UoWs : \E u2 \in UoWs \ {u1} :
        /\ Finished(u1) /\ Finished(u2) /\ SameSequenceIdStaged(u1, u2)
        /\ commit_result[u1].status = "returned"
        /\ ConflictWith(u2, u1)

\* C3: when a commit fails (a write raises, or the connection fails), the
\* step that ends it leaves the committed log as it is and drops the rows
\* the transaction had inserted, and none of the events the commit staged,
\* for any of its aggregates, is in the log; an open transaction's rows are
\* not in the log either.
C3_CommitAtomicity ==
    [][\A u \in UoWs :
          /\ \A i \in DOMAIN tx_rows[u] : ~InLog(tx_rows[u][i].event_id)
          /\ (pc[u] # "idle" /\ pc'[u] = "idle"
                /\ commit_result'[u].status = "raised")
             => /\ log' = log
                /\ tx_rows'[u] = <<>>
                /\ \A id \in EventIds(commit_events[u]) :
                      \A i \in DOMAIN log' : log'[i].event_id # id]_vars

\* C3 witness: a commit that staged events of two aggregates has failed on
\* write's check after an earlier write of it had succeeded.
C3_Witness ==
    \E u \in UoWs :
        /\ Finished(u)
        /\ commit_result[u].error = "Wrong seq id"
        /\ commit_next[u] >= 2
        /\ Cardinality({commit_events[u][i].aggregate_id :
                           i \in DOMAIN commit_events[u]}) >= 2

\* C4: the logical_time values of the committed events are strictly
\* increasing in commit order (log is in commit order).
C4_LogicalTimeCommitOrder ==
    \A i \in DOMAIN log, j \in DOMAIN log :
        i < j => log[i].logical_time < log[j].logical_time

\* The recorded events of the committed log with a logical time in `times`,
\* in logical-time order.
RecordedEventsAt(times) ==
    LET ordered == OrderByLogicalTime({r \in Range(log) : r.logical_time \in times})
    IN [i \in DOMAIN ordered |->
            [event |-> FromRow(ordered[i]), logical_time |-> ordered[i].logical_time]]

\* C5: whenever the projection's checkpoint is >= N, the projection has
\* applied every committed event of its EVENT_CLASSES with logical_time <= N.
C5_GapFreePrefix ==
    \A p \in RunningProjections : \A i \in DOMAIN log :
        (/\ log[i].event_type \in EVENT_CLASSES(p)
         /\ log[i].logical_time <= durable[p].last_seen_logical_time)
        => log[i].logical_time \in Range(durable[p].applied)

\* C6: in every durable projection state (also after a cycle was killed or
\* raised, and after the restart) the read model, the checkpoint and the
\* event count are those of handling, once each and in logical-time order,
\* exactly the fetched events with logical_time <= the persisted checkpoint.
C6_CheckpointAtomicity ==
    \A p \in RunningProjections :
        LET upto == {t \in fetched[p] : t <= durable[p].last_seen_logical_time}
            r == HandleAll(p, NewProjection, RecordedEventsAt(upto))
        IN ~r.raised /\ r.state = durable[p]

\* C6 witness: a cycle that had fetched events was killed before its
\* session.commit(), after an earlier cycle had committed events.
C6_Witness ==
    \E p \in RunningProjections :
        /\ consumer_pc[p] = "killed"
        /\ batch[p] # <<>>
        /\ durable[p].observed_event_count >= 1

ReadModelAndCheckpoint(state) ==
    [last_seen_logical_time |-> state.last_seen_logical_time,
     observed_event_count |-> state.observed_event_count,
     tasks |-> state.tasks, project_stats |-> state.project_stats,
     task_history |-> state.task_history]

\* Catching up from `state` on the committed log as it is: the fetch and
\* the loop (a second fetch would return nothing).
CatchUp(p, state) == HandleAll(p, state, FetchFor(p, state))

\* C7: when a cycle was killed before its session.commit(), the restarted
\* projection fetches the killed cycle's batch again and catches up to the
\* same read model and checkpoint as the run that was not interrupted
\* (which commits the cycle and catches up from there).
C7_RestartEquivalence ==
    \A p \in RunningProjections :
        consumer_pc[p] = "killed" =>
            LET restarted == CatchUp(p, durable[p])
                uninterrupted == CatchUp(p, session[p])
            IN /\ Range(batch[p]) \subseteq
                      Range(LogicalTimes(FetchFor(p, durable[p])))
               /\ restarted.raised = uninterrupted.raised
               /\ ReadModelAndCheckpoint(restarted.state)
                      = ReadModelAndCheckpoint(uninterrupted.state)

\* C8: the persisted last_seen_logical_time starts at -1 and no step
\* (cycle, kill, restart, raising handler) decreases it.
C8_CheckpointMonotone ==
    /\ \A p \in Projections : durable[p].last_seen_logical_time = -1
    /\ [][\A p \in Projections :
             durable'[p].last_seen_logical_time
                 >= durable[p].last_seen_logical_time]_vars

\* C8 witness: the checkpoint has advanced over two events and a later
\* cycle was killed.
C8_Witness ==
    \E p \in RunningProjections :
        /\ consumer_pc[p] = "killed"
        /\ durable[p].last_seen_logical_time >= 2

\* C9: when a fetch of the catch-up loop has returned no events,
\* logical_time_seen(t) is true for every t up to the logical time of the
\* last event the projection's fetches have returned.
C9_CaughtUpSeen ==
    \A p \in RunningProjections :
        (consumer_pc[p] = "applied" /\ batch[p] = <<>>) =>
            \A t \in (-1)..SetMax(fetched[p], -1) : LogicalTimeSeen(p, t)

\* C9 witness: a fetch returned nothing after the loop had observed events.
C9_Witness ==
    \E p \in RunningProjections :
        /\ consumer_pc[p] = "applied" /\ batch[p] = <<>>
        /\ fetched[p] # {}

\* The sequence_ids of the rows of aggregate_id that session u sees.
SequenceIdsOf(u, aggregate_id) ==
    {r.sequence_id : r \in {q \in VisibleRows(u) : q.aggregate_id = aggregate_id}}

\* The step in which write(event) of session u ends: it returns or raises.
WriteEnds(u) ==
    /\ pc[u] = "inserting"
    /\ pc'[u] # "inserting"
    /\ commit_result'[u].error # "connection lost"

\* C10: write(event) inserts the event's row, with the next logical time,
\* if and only if event.sequence_id is one more than the largest sequence_id
\* of event.aggregate_id (-1 when the aggregate has no row); otherwise it
\* raises "Wrong seq id", the log is unchanged and the event is in no row.
\* The first event of an aggregate is inserted only with sequence_id 0.
C10_WriteChecksSequenceId ==
    [][\A u \in UoWs :
         WriteEnds(u) =>
            LET event == commit_events[u][commit_next[u]]
                ids == SequenceIdsOf(u, event.aggregate_id)
                expected == IF ids = {} THEN 0
                            ELSE 1 + CHOOSE m \in ids : \A n \in ids : n <= m
                inserted == \E i \in DOMAIN tx_rows'[u] :
                                tx_rows'[u][i].event_id = event.event_id
            IN /\ log' = log
               /\ inserted <=> event.sequence_id = expected
               /\ inserted =>
                     /\ tx_rows'[u] =
                           Append(tx_rows[u], EventRow(event, logical_time_seq + 1))
                     /\ commit_result'[u].status = "running"
               /\ ~inserted =>
                     /\ commit_result'[u].status = "raised"
                     /\ commit_result'[u].error = "Wrong seq id"
                     /\ ~InLog(event.event_id)'
               /\ (ids = {} /\ inserted) => event.sequence_id = 0]_vars

\* C10 witness: write has raised for an event that skips a sequence_id of
\* an aggregate with committed rows.
C10_Witness ==
    \E u \in StoreClients :
        /\ commit_result[u].error = "Wrong seq id"
        /\ LET event == commit_events[u][commit_next[u]]
           IN /\ CommittedRowsOf(event.aggregate_id) # {}
              /\ \A i \in CommittedRowsOf(event.aggregate_id) :
                    event.sequence_id > log[i].sequence_id + 1

\* The step in which commit of caller u collects its events and enters the
\* transaction, and the step in which it returns.
CommitCalled(u) == pc[u] = "idle" /\ pc'[u] \in {"locking", "writing"}
CommitReturns(u) ==
    pc[u] = "writing" /\ pc'[u] = "idle" /\ commit_result'[u].status = "returned"

\* The largest committed sequence_id of an aggregate, -1 when it has no row:
\* the baseline of an aggregate the lone caller added (-1) or got.
StoreBaseline(aggregate_id) ==
    SetMax({log[i].sequence_id : i \in CommittedRowsOf(aggregate_id)}, -1)

\* C11: commit collects exactly the events of the aggregates of the identity
\* map with a sequence_id above the aggregate's baseline (-1 after add, the
\* loaded current sequence id after get), each once; it makes no row visible
\* before it returns; when it returns, the log has grown by exactly the rows
\* of these events, in their order, and the result is the logical time of
\* the last one, which is >= 1, or -1 and an unchanged log when there was
\* no such event.
C11_CommitWritesPending ==
    [][\A u \in UoWCallers :
         /\ CommitCalled(u) =>
               LET pending ==
                     UNION {{e \in Range(identity_map[u][i].events) :
                                e.sequence_id >
                                    StoreBaseline(identity_map[u][i].aggregate_id)} :
                            i \in DOMAIN identity_map[u]}
               IN /\ Range(commit_events'[u]) = pending
                  /\ Len(commit_events'[u]) = Cardinality(pending)
         /\ (pc[u] # "idle" /\ pc'[u] # "idle") =>
               /\ commit_events'[u] = commit_events[u]
               /\ log' = log
         /\ CommitReturns(u) =>
               LET n == Len(commit_events[u])
               IN /\ Len(log') = Len(log) + n
                  /\ SubSeq(log', 1, Len(log)) = log
                  /\ \A k \in 1..n :
                        log'[Len(log) + k] =
                            EventRow(commit_events[u][k],
                                     log'[Len(log) + k].logical_time)
                  /\ commit_result'[u].logical_time =
                        IF n = 0 THEN -1 ELSE log'[Len(log')].logical_time
                  /\ n > 0 => commit_result'[u].logical_time >= 1]_vars

\* C11 witness: a commit has returned after writing the one new event of an
\* aggregate it had loaded with committed events.
C11_Witness ==
    \E u \in UoWCallers :
        /\ pc[u] = "idle"
        /\ commit_result[u].status = "returned"
        /\ commit_result[u].logical_time >= 2
        /\ Len(commit_events[u]) = 1
        /\ commit_events[u][1].sequence_id >= 1

\* C12: when a commit returns, every aggregate the caller kept a reference to
\* and that the commit wrote events of is, loaded again from the store with
\* an empty identity map, equal by value to the kept one: same aggregate_id,
\* same events in the same order, same derived state.
C12_CommitGetRoundTrip ==
    [][\A u \in UoWCallers :
         CommitReturns(u) =>
            \A i \in DOMAIN held[u] :
               (\E k \in DOMAIN commit_events[u] :
                    commit_events[u][k] \in Range(held[u][i].events)) =>
                  LET r == Reconstruct(GetEvents(Range(log'), held[u][i].aggregate_id,
                                                 TASK_EVENT_TYPES))
                  IN /\ ~r.raised
                     /\ r.obj = held[u][i]]_vars

\* The aggregate as last committed: the fold of its committed events.
AsCommitted(aggregate_id) ==
    Reconstruct(GetEvents(Range(log), aggregate_id, TASK_EVENT_TYPES)).obj

\* C13: rollback leaves the events database as it is and the identity map
\* and the baselines empty, so that nothing is committable; a commit called
\* next collects no event, and a get called next loads the aggregate as last
\* committed, without the events appended before the rollback.
C13_RollbackDiscards ==
    [][\A u \in UoWCallers :
         /\ commit_result'[u].status = "rolled back" =>
               /\ <<log, tx_rows, logical_time_seq, advisory_locks>>'
                     = <<log, tx_rows, logical_time_seq, advisory_locks>>
               /\ identity_map'[u] = <<>>
               /\ committed_sequence_ids'[u] = <<>>
               /\ GetCommittableEvents(identity_map'[u],
                                       committed_sequence_ids'[u]) = <<>>
         /\ (commit_result[u].status = "rolled back" /\ CommitCalled(u)) =>
               commit_events'[u] = <<>>
         /\ (/\ commit_result[u].status = "rolled back"
             /\ commit_result'[u].status = "none"
             /\ next_aggregate_id'[u] = next_aggregate_id[u]
             /\ identity_map'[u] # <<>>) =>
               /\ Len(identity_map'[u]) = 1
               /\ identity_map'[u][1] = AsCommitted(identity_map'[u][1].aggregate_id)
               /\ \A e \in Range(identity_map'[u][1].events) : InLog(e.event_id)]_vars

\* C13 witness: after a rollback the caller still holds an aggregate with
\* committed events and an event appended before the rollback, which is in
\* no row.
C13_Witness ==
    \E u \in UoWCallers :
        /\ commit_result[u].status = "rolled back"
        /\ \E i \in DOMAIN held[u] :
              /\ CommittedRowsOf(held[u][i].aggregate_id) # {}
              /\ \E e \in Range(held[u][i].events) : ~InLog(e.event_id)

\* The step in which get loads an aggregate into the identity map.
GetLoads(u) ==
    /\ Len(identity_map'[u]) = Len(identity_map[u]) + 1
    /\ next_aggregate_id'[u] = next_aggregate_id[u]
    /\ commit_result'[u].status = "none"

\* C14: get of an aggregate of the identity map changes nothing and returns
\* the instance of the map, with the events appended to it; the get that
\* loads puts into the map the validated fold of the aggregate's committed
\* events and records their largest sequence_id as the baseline, so that
\* none of them is committable; no commit collects an event that is in the
\* log.
C14_GetCachesAndBaselines ==
    [][\A u \in UoWCallers :
         /\ commit_result'[u].status = "got" =>
               /\ <<identity_map, committed_sequence_ids, store_vars>>'
                     = <<identity_map, committed_sequence_ids, store_vars>>
               /\ Len(held'[u]) = 1
               /\ InIdentityMap(u, held'[u][1].aggregate_id)
               /\ held'[u][1] = IdentityMapGet(u, held'[u][1].aggregate_id)
         /\ GetLoads(u) =>
               LET obj == identity_map'[u][Len(identity_map'[u])]
               IN /\ SubSeq(identity_map'[u], 1, Len(identity_map[u]))
                        = identity_map[u]
                  /\ obj = AsCommitted(obj.aggregate_id)
                  /\ obj.events # <<>>
                  /\ TaskValidate(obj)
                  /\ committed_sequence_ids'[u][obj.aggregate_id]
                        = StoreBaseline(obj.aggregate_id)
                  /\ GetCommittableEvents(<<obj>>, committed_sequence_ids'[u]) = <<>>
                  /\ store_vars' = store_vars
         /\ CommitCalled(u) =>
               \A e \in Range(commit_events'[u]) : ~InLog(e.event_id)]_vars

\* C14 witness: get has returned the cached instance of a loaded aggregate
\* with an event appended to it since the load.
C14_Witness ==
    \E u \in UoWCallers :
        /\ commit_result[u].status = "got"
        /\ \E e \in Range(held[u][1].events) : InLog(e.event_id)
        /\ \E e \in Range(held[u][1].events) : ~InLog(e.event_id)

\* C15: from the moment commit has collected its events, through the
\* transaction and after commit has returned or raised, the identity map and
\* the baselines are empty; when commit returns, what get reads for each
\* written aggregate contains the events just committed, and a get called
\* next loads the aggregate from the committed rows.
C15_CommitResetsIdentityMap ==
    [][\A u \in UoWs :
         /\ (CommitCalled(u) \/ pc[u] # "idle") =>
               /\ identity_map'[u] = <<>>
               /\ committed_sequence_ids'[u] = <<>>
         /\ CommitReturns(u) =>
               \A e \in Range(commit_events[u]) :
                  /\ ~InIdentityMap(u, e.aggregate_id)'
                  /\ e \in Range(GetEventsFor(u, e.aggregate_id)')
         /\ (commit_result[u].status = "returned" /\ GetLoads(u)) =>
               /\ Len(identity_map'[u]) = 1
               /\ identity_map'[u][1] = AsCommitted(identity_map'[u][1].aggregate_id)]_vars

\* C15 witness: after the caller's commit of a second event of an aggregate
\* has returned, its get has loaded the aggregate with that event.
C15_Witness ==
    \E u \in UoWs :
        /\ pc[u] = "idle"
        /\ Len(identity_map[u]) = 1
        /\ committed_sequence_ids[u][identity_map[u][1].aggregate_id] >= 1
        /\ \E e \in Range(identity_map[u][1].events) :
              e.event_id[1] = u /\ e.sequence_id >= 1 /\ InLog(e.event_id)

\* C16: add raises and leaves the identity map and the baselines as they
\* are when the aggregate's id has committed rows or is in the identity
\* map; otherwise it appends the aggregate to the identity map with baseline
\* -1.  It never touches the events database.  create followed by add
\* stages the new aggregate in the same way.
C16_AddChecksExistence ==
    [][\A u \in UoWCallers :
         /\ commit_result'[u].status \in {"added", "add raised"} =>
               LET aggregate == held'[u][1]
                   known == \/ CommittedRowsOf(aggregate.aggregate_id) # {}
                            \/ InIdentityMap(u, aggregate.aggregate_id)
               IN /\ store_vars' = store_vars
                  /\ known =>
                        /\ commit_result'[u].status = "add raised"
                        /\ identity_map' = identity_map
                        /\ committed_sequence_ids' = committed_sequence_ids
                  /\ ~known =>
                        /\ commit_result'[u].status = "added"
                        /\ identity_map'[u] = Append(identity_map[u], aggregate)
                        /\ committed_sequence_ids'[u][aggregate.aggregate_id] = -1
                        /\ \A k \in DOMAIN committed_sequence_ids[u] :
                              committed_sequence_ids'[u][k]
                                  = committed_sequence_ids[u][k]
         /\ (next_aggregate_id'[u] # next_aggregate_id[u]
                /\ identity_map'[u] # identity_map[u]) =>
               LET aggregate == identity_map'[u][Len(identity_map'[u])]
               IN /\ identity_map'[u] = Append(identity_map[u], aggregate)
                  /\ CommittedRowsOf(aggregate.aggregate_id) = {}
                  /\ ~InIdentityMap(u, aggregate.aggregate_id)
                  /\ committed_sequence_ids'[u][aggregate.aggregate_id] = -1]_vars

\* C16 witness: add has raised for an aggregate that has committed rows and
\* is not in the identity map.
C16_Witness ==
    \E u \in UoWCallers :
        /\ commit_result[u].status = "add raised"
        /\ CommittedRowsOf(held[u][1].aggregate_id) # {}
        /\ ~InIdentityMap(u, held[u][1].aggregate_id)

\* The aggregates the lone caller has in its identity map.
Aggregates(u) == Range(identity_map[u])

\* Every call of a behaviour method with its outcome on aggregate obj.
BehaviourOutcomes(u, obj) ==
    LET event_id == <<u, next_event_id[u]>>
        Outcome(kind, arg) ==
            LET event == BehaviourEvent(obj, kind, arg, event_id)
            IN [kind |-> kind, event |-> event, r |-> AggregateApply(obj, event)]
    IN {Outcome("update_title", title) : title \in ValidTitles \cup InvalidTitles}
       \cup {Outcome("assign", assignee_id) : assignee_id \in AssigneeIds}
       \cup {Outcome(kind, None) : kind \in {"complete", "unassign"}}

\* C17: on every aggregate the caller can have, update_title with a title
\* that is no str or is shorter than three characters raises, and whenever a
\* behaviour method raises the aggregate's event list is what it was.
C17_InvalidInputAppendsNothing ==
    \A u \in UoWCallers : \A obj \in Aggregates(u) :
        \A o \in BehaviourOutcomes(u, obj) :
            /\ (o.kind = "update_title" /\ o.event.title \in InvalidTitles)
                  => o.r.raised
            /\ o.r.raised => o.r.obj.events = obj.events

\* C17 witness: an aggregate with two events on which a behaviour method has
\* raised (it does not validate any more).
C17_Witness ==
    \E u \in UoWCallers : \E obj \in Aggregates(u) :
        Len(obj.events) >= 2 /\ ~TaskValidate(obj)

\* C18: the derived state of every aggregate the caller has is the fold of
\* apply over its event list, whatever calls succeeded or raised before, and
\* a behaviour method called with valid input on it succeeds.
C18_StateIsFoldOfEvents ==
    \A u \in UoWCallers : \A obj \in Aggregates(u) :
        /\ Reconstruct(obj.events).obj = obj
        /\ \A o \in BehaviourOutcomes(u, obj) :
              (o.kind = "update_title" => o.event.title \in ValidTitles)
                  => ~o.r.raised

\* C19: the event list of every aggregate the caller has carries the
\* aggregate's aggregate_id and the sequence_ids 0, 1, ..., n-1 in order (a
\* created aggregate has one event, with sequence_id 0), and every behaviour
\* method that succeeds appends exactly one event, with the aggregate's
\* aggregate_id and the largest sequence_id of its events plus 1.
C19_InMemorySequenceIds ==
    \A u \in UoWCallers : \A obj \in Aggregates(u) :
        /\ obj.events # <<>>
        /\ \A k \in DOMAIN obj.events :
              /\ obj.events[k].sequence_id = k - 1
              /\ obj.events[k].aggregate_id = obj.aggregate_id
        /\ obj.events[1].event_type = "TaskCreated"
        /\ \A o \in BehaviourOutcomes(u, obj) :
              ~o.r.raised =>
                 /\ o.r.obj.events = Append(obj.events, o.event)
                 /\ o.event.aggregate_id = obj.aggregate_id
                 /\ \E m \in {e.sequence_id : e \in Range(obj.events)} :
                       /\ \A e \in Range(obj.events) : e.sequence_id <= m
                       /\ o.event.sequence_id = m + 1

\* C19 witness: an aggregate with three events, created and then changed by
\* two behaviour methods, one of them on the loaded aggregate.
C19_Witness ==
    \E u \in UoWCallers : \E obj \in Aggregates(u) :
        /\ Len(obj.events) = 3
        /\ committed_sequence_ids[u][obj.aggregate_id] = 1

\* C20: every commit that has started ends: it acquires all its locks, with
\* the callers' lock sets overlapping, and returns or raises the conflict
\* error "Wrong seq id".
C20_CommitsTerminate ==
    \A u \in UoWs :
        /\ (pc[u] = "locking") ~> (pc[u] \in {"writing", "inserting", "idle"})
        /\ (pc[u] # "idle") ~>
              (/\ pc[u] = "idle"
               /\ \/ commit_result[u].status = "returned"
                  \/ /\ commit_result[u].status = "raised"
                     /\ commit_result[u].error = "Wrong seq id")

\* C20 witness: both callers commit events of both shared tasks; one holds
\* the first lock of the sorted order, the other waits for it.
C20_Witness ==
    \E u1 \in UoWs : \E u2 \in UoWs \ {u1} :
        /\ pc[u1] = "locking" /\ pc[u2] = "locking"
        /\ Len(commit_events[u1]) = 2 /\ Len(commit_events[u2]) = 2
        /\ Len(commit_locks[u1]) = 2
        /\ advisory_locks[Head(commit_locks[u1])] = u2

\* The commit of caller u ends by raising.
CommitRaises(u) ==
    pc[u] # "idle" /\ pc'[u] = "idle" /\ commit_result'[u].status = "raised"

\* C21: two callers that got the same committed task at the same version,
\* each changed it and both commit: never both commits return; the one that
\* raises does so with "Wrong seq id", holding the lock of the task, on an
\* event whose sequence_id another commit has committed since the load, and
\* with that step the log is unchanged and holds none of its events; no two
\* committed rows of a task carry the same sequence_id.
C21_StaleReadConflict ==
    /\ [](\A u1 \in UoWs : \A u2 \in UoWs \ {u1} :
             /\ (Finished(u1) /\ Finished(u2) /\ SameSequenceIdStaged(u1, u2)) =>
                   ~(commit_result[u1].status = "returned"
                        /\ commit_result[u2].status = "returned")
             /\ \A i \in DOMAIN log, j \in DOMAIN log :
                   (log[i].aggregate_id = log[j].aggregate_id
                       /\ log[i].sequence_id = log[j].sequence_id) => i = j)
    /\ [][\A u \in UoWs :
             CommitRaises(u) =>
                LET event == commit_events[u][commit_next[u]]
                IN /\ commit_result'[u].error = "Wrong seq id"
                   /\ advisory_locks[event.aggregate_id] = u
                   /\ \E i \in DOMAIN log :
                         /\ log[i].aggregate_id = event.aggregate_id
                         /\ log[i].sequence_id = event.sequence_id
                         /\ log[i].event_id[1] # u
                   /\ log' = log
                   /\ tx_rows'[u] = <<>>
                   /\ \A id \in EventIds(commit_events[u]) : ~InLog(id)']_vars

\* C21 witness: both callers had got the same task at version 0 and staged
\* an event with sequence_id 1 for it; the commit of one has returned, the
\* commit of the other has raised the conflict error.
C21_Witness ==
    \E u1 \in UoWs : \E u2 \in UoWs \ {u1} : \E a \in SharedAggregateIds :
        /\ Finished(u1) /\ Finished(u2)
        /\ commit_result[u1].status = "returned"
        /\ commit_result[u2].error = "Wrong seq id"
        /\ \E i \in DOMAIN commit_events[u1] :
              commit_events[u1][i].aggregate_id = a
                 /\ commit_events[u1][i].sequence_id = 1
        /\ commit_events[u2][commit_next[u2]].aggregate_id = a
        /\ commit_events[u2][commit_next[u2]].sequence_id = 1

\* The step in which the reading client's call of `op` returns.
QueryReturns(op) ==
    /\ reply'.op = op
    /\ UNCHANGED <<store_vars, uow_vars, uuid_vars, projection_vars, run_once,
                   appended_to_stale>>

\* The committed rows above the watermark whose type passes the filter; an
\* empty filter is no restriction.
RowsAbove(logical_time, types) ==
    {r \in Range(log) :
        r.logical_time > logical_time /\ (types = {} \/ r.event_type \in types)}

\* C22: get_events_starting_at(t, types) returns exactly the committed
\* events with logical_time > t whose type is in types (every type when
\* types is empty), each once, in ascending logical_time order, and none
\* with logical_time <= t.
C22_EventsStartingAt ==
    [][QueryReturns("get_events_starting_at") =>
          LET logical_time == reply'.args[1]
              types == reply'.args[2]
              result == reply'.result
              expected == RowsAbove(logical_time, types)
          IN /\ Len(result) = Cardinality(expected)
             /\ \A r \in expected :
                   \E i \in DOMAIN result :
                      /\ result[i].logical_time = r.logical_time
                      /\ result[i].event = FromRow(r)
             /\ \A i \in DOMAIN result : result[i].logical_time > logical_time
             /\ \A i \in DOMAIN result, j \in DOMAIN result :
                   i < j => result[i].logical_time < result[j].logical_time]_vars

\* The committed rows of an aggregate whose type passes the filter; an empty
\* filter is no restriction.
RowsOf(aggregate_id, types) ==
    {r \in Range(log) :
        r.aggregate_id = aggregate_id /\ (types = {} \/ r.event_type \in types)}

\* The result holds exactly the events of the rows `expected`, each once, in
\* ascending sequence_id order.
ExactlyInSequenceOrder(result, expected) ==
    /\ Len(result) = Cardinality(expected)
    /\ \A r \in expected : \E i \in DOMAIN result : result[i] = FromRow(r)
    /\ \A i \in DOMAIN result, j \in DOMAIN result :
          i < j => result[i].sequence_id < result[j].sequence_id

\* C23 as stated: get_events(aggregate_id, types) returns exactly the
\* committed events of the aggregate that pass the filter, in ascending
\* sequence_id order, and the result is empty iff the aggregate has no
\* committed events.
C23_GetEventsEmptyIffNoEvents ==
    [][QueryReturns("get_events") =>
          LET aggregate_id == reply'.args[1]
              types == reply'.args[2]
          IN /\ ExactlyInSequenceOrder(reply'.result, RowsOf(aggregate_id, types))
             /\ reply'.result = <<>> <=> CommittedRowsOf(aggregate_id) = {}]_vars

\* C23 amended: get_events(aggregate_id, types) returns exactly the
\* committed events of the aggregate that pass the filter (all of them when
\* types is empty), in ascending sequence_id order; the result is empty iff
\* the aggregate has no committed event that passes the filter, which for an
\* empty types means that it has no committed events.
C23_GetEvents ==
    [][QueryReturns("get_events") =>
          LET aggregate_id == reply'.args[1]
              types == reply'.args[2]
          IN /\ ExactlyInSequenceOrder(reply'.result, RowsOf(aggregate_id, types))
             /\ reply'.result = <<>> <=> RowsOf(aggregate_id, types) = {}
             /\ types = {} =>
                   /\ Len(reply'.result) = Cardinality(CommittedRowsOf(aggregate_id))
                   /\ reply'.result = <<>> <=> CommittedRowsOf(aggregate_id) = {}]_vars

\* C23 witness: get_events with a type filter has returned some, not all, of
\* the committed events of an aggregate.
C23_Witness ==
    /\ reply.op = "get_events"
    /\ reply.args[2] # {}
    /\ reply.result # <<>>
    /\ Len(reply.result) < Cardinality(CommittedRowsOf(reply.args[1]))

\* The step in which the client's call of logical_time_seen returns: no
\* writer and no consumer takes a step.
LogicalTimeSeenReturns ==
    /\ reply'.op = "logical_time_seen"
    /\ UNCHANGED <<store_vars, uow_vars, uuid_vars, run_once, appended_to_stale,
                   consumer_pc, batch,
                   fetched>>

\* C24: logical_time_seen(t) returns true iff the persisted
\* last_seen_logical_time of the projection is >= t (whatever a running
\* cycle has pending in its session), and it leaves the persisted and the
\* pending checkpoint and read model as they are.
C24_LogicalTimeSeen ==
    [][LogicalTimeSeenReturns =>
          LET p == reply'.args[1]
              logical_time == reply'.args[2]
          IN /\ reply'.result = TRUE
                   <=> durable[p].last_seen_logical_time >= logical_time
             /\ reply'.result \in BOOLEAN
             /\ durable' = durable
             /\ session' = session]_vars

\* C24 witness: logical_time_seen(t) has returned true for t the persisted
\* checkpoint itself, after the projection had consumed events, and a cycle
\* has a later checkpoint pending.
C24_Witness ==
    /\ reply.op = "logical_time_seen"
    /\ reply.result = TRUE
    /\ reply.args[2] >= 1
    /\ durable[reply.args[1]].last_seen_logical_time = reply.args[2]
    /\ session[reply.args[1]].last_seen_logical_time > reply.args[2]

\* The step in which the consume of the group's current consumer ends, and
\* the step in which it ends by raising.
GroupConsumeEnds ==
    /\ run_once.consumer \in DOMAIN GroupConsumers
    /\ run_once'.consumer # run_once.consumer
GroupConsumeRaises ==
    /\ GroupConsumeEnds
    /\ GroupConsumers[run_once.consumer] \in run_once'.logged

C26_EmptyAndNonEmptyCycles ==
    [][GroupConsumeEnds =>
          LET p == GroupConsumers[run_once.consumer]
              recorded_events == FetchFor(p, durable[p])
              n == Len(recorded_events)
          IN /\ \A q \in Projections \ {p} : durable'[q] = durable[q]
             /\ n = 0 =>
                   /\ ~GroupConsumeRaises
                   /\ durable'[p] = durable[p]
             /\ (n > 0 /\ ~GroupConsumeRaises) =>
                   /\ durable'[p].last_seen_logical_time
                         = recorded_events[n].logical_time
                   /\ durable'[p].last_seen_logical_time
                         > durable[p].last_seen_logical_time
                   /\ durable'[p].observed_event_count
                         = durable[p].observed_event_count + n]_vars

\* C26 witness: the last cycle of a projection that has handled two events
\* has fetched nothing.
C26_Witness ==
    \E p \in Projections :
        /\ batch[p] = <<>>
        /\ p \notin run_once.logged
        /\ durable[p].observed_event_count >= 2
        /\ run_once.consumer > 1
        /\ GroupConsumers[run_once.consumer - 1] = p

\* The step in which caller u calls rollback.
RollsBack(u) ==
    /\ commit_result'[u].status = "rolled back"
    /\ commit_result[u].status # "rolled back" \/ identity_map[u] # <<>>

\* C27: every step (of a commit that succeeds or fails, a rollback, a consume
\* cycle) leaves every committed row where it is and as it is: the log only
\* grows at its end, so a committed event is in every later state with the
\* same aggregate_id, sequence_id, event_id, type, content and logical_time.
C27_LogAppendOnly ==
    [][/\ Len(log') >= Len(log)
       /\ \A i \in DOMAIN log : log'[i] = log[i]
       /\ \A u \in UoWs :
             (CommitRaises(u) \/ RollsBack(u)) => log' = log
       /\ (durable' # durable \/ session' # session) => log' = log]_vars

\* C27 witness: with two events committed and consumed by the projection, a
\* commit has raised the conflict error and the other caller has rolled back.
C27_Witness ==
    /\ Len(log) >= 2
    /\ \E p \in RunningProjections : durable[p].observed_event_count >= 2
    /\ \E u1 \in UoWs : \E u2 \in UoWs \ {u1} :
          /\ commit_result[u1].error = "Wrong seq id"
          /\ commit_result[u2].status = "rolled back"

\* The read model and event count of a projection state.
ReadModel(state) ==
    [observed_event_count |-> state.observed_event_count, tasks |-> state.tasks,
     project_stats |-> state.project_stats, task_history |-> state.task_history]

\* The handlers of p folded over all committed events of its EVENT_CLASSES,
\* in ascending logical_time order, each once.
FoldOfLog(p) ==
    HandleAll(p, NewProjection,
              RecordedEventsAt({r.logical_time :
                                   r \in {q \in Range(log) :
                                             q.event_type \in EVENT_CLASSES(p)}}))

\* C28: when no commit is running and a fetch of the projection returns
\* nothing, its persisted read model is the fold of its handlers over all
\* committed events of its types in ascending logical_time order, each
\* applied once.
C28_ReadModelIsFoldOfLog ==
    [][\A p \in RunningProjections :
          (/\ \A u \in UoWs : pc[u] = "idle"
           /\ consumer_pc[p] = "idle" /\ consumer_pc'[p] = "applied"
           /\ batch'[p] = <<>>)
          => /\ ~FoldOfLog(p).raised
             /\ ReadModel(durable[p]) = ReadModel(FoldOfLog(p).state)]_vars

\* C29: for every projection and every committed event of a type the
\* projection has no handler for, dispatching the event changes nothing and
\* raises nothing, and the loop iteration that handles it goes on and
\* advances the checkpoint to the event's logical time.
C29_UnknownTypeIsNoOp ==
    \A p \in Projections : \A i \in DOMAIN log :
        log[i].event_type \notin HandledTypes(p) =>
            LET recorded_event == [event |-> FromRow(log[i]),
                                   logical_time |-> log[i].logical_time]
                dispatched == ProjectionApply(p, durable[p], recorded_event.event)
                handled == HandleRecordedEvent(p, durable[p], recorded_event)
            IN /\ ~dispatched.raised
               /\ dispatched.state = durable[p]
               /\ ~handled.raised
               /\ handled.state.last_seen_logical_time = recorded_event.logical_time

\* The call get(aggregate_id) of caller u on an aggregate that has no
\* committed event and is not in the identity map.
GetOfMissing(u, aggregate_id) ==
    /\ CommittedRowsOf(aggregate_id) = {}
    /\ Get(u, aggregate_id)

EventsOfAggregate(events, aggregate_id) ==
    {i \in DOMAIN events : events[i].aggregate_id = aggregate_id}

\* C30: get of an aggregate_id without committed events raises instead of
\* returning an aggregate; it leaves the identity map, the baselines, the
\* caller's references and the database as they were, so the id is in
\* neither, exists answers no for it and none of its events is committable;
\* a commit called next collects no event of an id that is not in the
\* identity map, and an add called next with an aggregate of such an id is
\* accepted with baseline -1.
C30_GetMissingSignals ==
    [][\A u \in UoWCallers :
         /\ \A aggregate_id \in AllAggregateIds :
               GetOfMissing(u, aggregate_id) =>
                  /\ commit_result'[u].status = "get raised"
                  /\ held'[u] = held[u]
                  /\ identity_map'[u] = identity_map[u]
                  /\ committed_sequence_ids'[u] = committed_sequence_ids[u]
                  /\ store_vars' = store_vars
                  /\ \A i \in DOMAIN identity_map'[u] :
                        identity_map'[u][i].aggregate_id # aggregate_id
                  /\ aggregate_id \notin DOMAIN committed_sequence_ids'[u]
                  /\ EventsOfAggregate(
                        GetCommittableEvents(identity_map'[u],
                                             committed_sequence_ids'[u]),
                        aggregate_id) = {}
         /\ (commit_result[u].status = "get raised" /\ CommitCalled(u)) =>
               \A aggregate_id \in AllAggregateIds :
                  ~InIdentityMap(u, aggregate_id) =>
                     EventsOfAggregate(commit_events'[u], aggregate_id) = {}
         /\ \A i \in DOMAIN held[u] :
               (/\ commit_result[u].status = "get raised"
                /\ Add(u, held[u][i])
                /\ CommittedRowsOf(held[u][i].aggregate_id) = {}
                /\ ~InIdentityMap(u, held[u][i].aggregate_id)) =>
                  /\ commit_result'[u].status = "added"
                  /\ identity_map'[u] = Append(identity_map[u], held[u][i])
                  /\ committed_sequence_ids'[u][held[u][i].aggregate_id] = -1]_vars

\* C30 witness: a get has raised while nothing is committed and the
\* identity map is empty, and the caller still holds the aggregate it had
\* created and rolled back, which it may add.
C30_Witness ==
    \E u \in UoWCallers :
        /\ commit_result[u].status = "get raised"
        /\ log = <<>>
        /\ identity_map[u] = <<>>
        /\ held[u] # <<>>
        /\ next_aggregate_id[u] > 1

\* C31: no two committed rows carry the same (aggregate_id, sequence_id),
\* also when the writes come from concurrent transactions that took no
\* advisory lock.
C31_CheckAndInsertAtomic ==
    \A i, j \in DOMAIN log :
        (/\ log[i].aggregate_id = log[j].aggregate_id
         /\ log[i].sequence_id = log[j].sequence_id) => i = j

\* C32: of two committed events of one aggregate, the one with the smaller
\* sequence_id has the smaller logical_time.
C32_OrdersAgreeWithinAggregate ==
    \A i, j \in DOMAIN log :
        (/\ log[i].aggregate_id = log[j].aggregate_id
         /\ log[i].sequence_id < log[j].sequence_id)
        => log[i].logical_time < log[j].logical_time

\* C32 witness: a commit that wrote two events of one aggregate has
\* returned, and the other caller has committed an event of that aggregate
\* too.
C32_Witness ==
    \E u \in UoWs :
        /\ commit_result[u].status = "returned"
        /\ Len(commit_events[u]) = 2
        /\ commit_events[u][1].aggregate_id = commit_events[u][2].aggregate_id
        /\ \A n \in 1..2 : InLog(commit_events[u][n].event_id)
        /\ \E i \in CommittedRowsOf(commit_events[u][1].aggregate_id) :
              log[i].event_id[1] \in UoWs \ {u}

\* C33: when commit has returned logical time t and logical_time_seen(t) of
\* a projection is true, every event that commit wrote whose type is one of
\* the projection's EVENT_CLASSES has been applied to the projection's
\* persisted read model.
C33_ReadYourWrites ==
    \A u \in UoWs : \A p \in RunningProjections :
        (/\ commit_result[u].status = "returned"
         /\ commit_result[u].logical_time >= 0
         /\ LogicalTimeSeen(p, commit_result[u].logical_time))
        => \A i \in DOMAIN log :
              (/\ log[i].event_id \in EventIds(commit_events[u])
               /\ log[i].event_type \in EVENT_CLASSES(p))
              => log[i].logical_time \in Range(durable[p].applied)

\* C34: after a commit has returned logical time t >= 0, every projection
\* whose consume loop keeps running reaches a state in which
\* logical_time_seen(t) is true, without any further write (the sequence
\* hands out 1 first, so the logical times a commit returns are
\* 1..MaxEvents, or -1 when it wrote nothing).
C34_WaitingTerminates ==
    \A u \in WaitingCallers : \A p \in Projections : \A t \in 1..MaxEvents :
        (commit_result[u].status = "returned" /\ commit_result[u].logical_time = t)
        ~> LogicalTimeSeen(p, t)

\* The commit of caller u has raised and event <<u, n>> was one of the events
\* it had collected.
StagedInFailedCommit(u, n) ==
    /\ pc[u] = "idle"
    /\ commit_result[u].status = "raised"
    /\ <<u, n>> \in EventIds(commit_events[u])

C36_StaleEventsNeverWritten ==
    \A appended \in appended_to_stale : ~InLog(appended.event_id)

\* The references of caller u to aggregates that are not in its identity map.
StaleReferences(u) ==
    {i \in DOMAIN held[u] : ~InIdentityMap(u, held[u][i].aggregate_id)}

\* C36 as it holds: an event of a stale reference that is in no row gets into
\* the identity map only by an add of that very instance, which is accepted
\* only while the aggregate has no committed event; a commit collects events
\* of the identity map only; so an event appended to a stale reference of an
\* aggregate that has committed events is never in the log.
C36_StaleEventsWrittenOnlyAfterAdd ==
    /\ [][\A u \in UoWCallers :
            /\ \A i \in StaleReferences(u) : \A e \in Range(held[u][i].events) :
                  (/\ ~InLog(e.event_id)
                   /\ \E k \in DOMAIN identity_map'[u] :
                         e \in Range(identity_map'[u][k].events))
                  => /\ commit_result'[u].status = "added"
                     /\ held'[u] = <<held[u][i]>>
                     /\ CommittedRowsOf(held[u][i].aggregate_id) = {}
            /\ CommitCalled(u) =>
                  \A k \in DOMAIN commit_events'[u] :
                     \E m \in DOMAIN identity_map[u] :
                        commit_events'[u][k] \in Range(identity_map[u][m].events)]_vars
    /\ [](\A appended \in appended_to_stale :
             appended.committed => ~InLog(appended.event_id))

\* C36 witness: the caller has appended an event to the reference it kept to
\* an aggregate whose creation it committed since.
C36_Witness ==
    \E u \in UoWCallers : \E appended \in appended_to_stale :
        /\ commit_result[u].status = "stale changed"
        /\ appended.committed
        /\ \E i \in StaleReferences(u) :
              /\ appended.event_id \in EventIds(held[u][i].events)
              /\ CommittedRowsOf(held[u][i].aggregate_id) # {}

\* C37: the persisted observed_event_count of every projection is the number
\* of events whose handler effects its persisted state holds, and the number
\* of committed events of its EVENT_CLASSES with a logical_time up to its
\* persisted last_seen_logical_time.
C37_ObservedEventCount ==
    \A p \in Projections :
        /\ durable[p].observed_event_count = Len(durable[p].applied)
        /\ durable[p].observed_event_count =
              Cardinality({i \in DOMAIN log :
                              /\ log[i].event_type \in EVENT_CLASSES(p)
                              /\ log[i].logical_time
                                    <= durable[p].last_seen_logical_time})

\* What a projection's consumer owns: its persisted row and read model, its
\* session and its position in the cycle.
ProjectionState(p) == <<durable[p], session[p], consumer_pc[p], batch[p], fetched[p]>>

\* C38: a step that changes anything of a projection (a step of a consume
\* cycle) leaves the events database, with its log and its advisory locks,
\* and every Unit of Work as they are, and leaves every other projection as
\* it is; a step that changes the events database or a Unit of Work (a step
\* of a commit, a failing commit, a rollback or another call) leaves every
\* projection as it is.
C38_WritersAndProjectionsApart ==
    [][/\ \A p \in Projections :
             ProjectionState(p)' # ProjectionState(p) =>
                /\ log' = log
                /\ advisory_locks' = advisory_locks
                /\ store_vars' = store_vars
                /\ uow_vars' = uow_vars
                /\ \A q \in Projections \ {p} : ProjectionState(q)' = ProjectionState(q)
       /\ (store_vars' # store_vars \/ uow_vars' # uow_vars) =>
             \A p \in Projections : ProjectionState(p)' = ProjectionState(p)]_vars

\* C38 witness: while the caller's commit holds an advisory lock inside its
\* transaction, TaskProjection has handled a batch it has not committed and
\* TaskHistoryProjection is in a cycle of its own.
C38_Witness ==
    \E u \in FrameCallers :
        /\ pc[u] \in {"writing", "inserting"}
        /\ \E k \in DOMAIN advisory_locks : advisory_locks[k] = u
        /\ consumer_pc["tasks"] = "applied"
        /\ batch["tasks"] # <<>>
        /\ consumer_pc["task_history"] = "applied"

====
